---- MODULE Spec2Model ----
(***************************************************************************)
(* Model of the analysis-and-validation pipeline of imageToUI:             *)
(*   - UIValidator (src/src/services/uiValidator.ts): score aggregation,   *)
(*     issue generation and confidence;                                    *)
(*   - BrandDatabase (src/src/services/brandDatabase.ts): the brand        *)
(*     registry and detectBrand;                                           *)
(*   - UIValidator.validateUI with its stages (rendering, comparePixel-    *)
(*     Level, performAIAnalysis, analyzeStructure, validateBrand-          *)
(*     Consistency);                                                       *)
(*   - ImageAnalyzer (src/src/services/imageAnalyzer.ts): analyzeImage     *)
(*     and extractColorPalette.                                            *)
(*                                                                         *)
(* Numbers.  The source computes in IEEE-754 doubles.  Scores are modelled *)
(* as integers 0..100, weights in hundredths (0.25 -> 25) and confidences  *)
(* of detectBrand in hundredths (0.3 -> 30).  The double error (< 1e-12)   *)
(* changes the result of a Math.round only where the exact value lies on   *)
(* a half; the inputs of the model for which the double value falls below  *)
(* the half are listed in HalfLost.                                        *)
(*                                                                         *)
(* Texts.  The Korean message texts of the source are written as ASCII     *)
(* glosses; a character of a text is a one-character string, a non-ASCII   *)
(* character is written "U+XXXX".                                          *)
(***************************************************************************)
EXTENDS Integers, Sequences, FiniteSets, TLC

VARIABLES
    \* ---- UIValidator.validateUI (uiValidator.ts:52-121)
    pixelComparison,     \* [similarity |-> hundredths, differences]
    aiAnalysis,          \* [colorScore, typographyScore]
    structuralAnalysis,  \* [layoutScore, interactionScore]
    brandConsistency,    \* result of validateBrandConsistency
    breakdown,           \* the ScoreBreakdown, or NoValue before step 6
    overallScore,
    issues,
    confidence,
    vpc,                 \* position in validateUI
    \* ---- BrandDatabase (brandDatabase.ts:288-291) and a detectBrand call
    brands,              \* Map name -> BrandAssets
    brandKeywords,       \* Map name -> keywords, entries in insertion order
    brandPatterns,       \* Map name -> RegExp objects (with their lastIndex)
    callText,            \* arguments of the detectBrand call
    callPalette,
    callScores,          \* the Map scores of the call (line 1079)
    result,              \* the BrandMatch returned
    dpc,                 \* "call": detectBrand invoked; "done": it has
                         \* returned result on the registry as it is now;
                         \* "idle": no call yet, or the registry was
                         \* modified after the last one
    earlier,             \* an earlier call on the registry as it is now
                         \* and its result, for comparison
    \* ---- the arguments of validateUI and what its stages find
    original,            \* the file at originalImagePath
    rendered,            \* the file at the path renderCodeToImage returns
    job,                 \* generatedCodePath, analysisResult and the
                         \* outcomes of the external collaborators
    thrown,              \* the error validateUI rejects with, or NoValue
    \* ---- ImageAnalyzer.analyzeImage (imageAnalyzer.ts:73-143)
    image,               \* the file at imagePath and what sharp and the
                         \* vision model make of it
    palette,             \* analysisResult.colorPalette
    elements,            \* analysisResult.elements
    layout,              \* analysisResult.layout.type; typography and
                         \* designSystem are set and merged as layout is
    calls,               \* the stages analyzeImage has entered, in order
    rejection,           \* the error analyzeImage rejects with, or NoValue
    apc,                 \* position in analyzeImage
    \* ---- the CallTool request handler (index.ts:291-571)
    request,             \* request.params and what the called tool does
    response,            \* what the handler answers, or NoResponse
    written,             \* the path the handler has written a file to
    \* ---- ITUCommands (advancedImageAnalyzer.ts:966-1379)
    requirementsFile,    \* itu_requirements.md: the lines written to it
    modifications,       \* the modifications of the last modify
    report,              \* the history lines of the last status report
    conversions,         \* the number of start runs that have resolved
    lastCommand,         \* the command that ran last
    \* ---- analyzeImageAdvanced (advancedImageAnalyzer.ts:325-373)
    advInput,            \* the image file and what the collaborators do
    subpc,               \* the position of each sub-analysis
    sections,            \* what the sub-analyses have resolved with
    settled,             \* the sub-analyses in the order they resolved
    advResult,           \* the result analyzeImageAdvanced returns
    advpc                \* position in analyzeImageAdvanced

aggVars == <<pixelComparison, aiAnalysis, structuralAnalysis, brandConsistency,
             breakdown, overallScore, issues, confidence, vpc>>

brandVars == <<brands, brandKeywords, brandPatterns, callText, callPalette,
               callScores, result, dpc, earlier>>

stageVars == <<original, rendered, job, thrown>>

analyzerVars == <<image, palette, elements, layout, calls, rejection, apc>>

\* the state of the server beside the validator, the brand database and
\* the analyzer
serverVars == <<request, response, written, requirementsFile, modifications,
                report, conversions, lastCommand, advInput, subpc, sections,
                settled, advResult, advpc>>

vars == <<aggVars, brandVars, stageVars, analyzerVars, serverVars>>

NoValue == "none"

(***************************************************************************)
(* Helpers                                                                 *)
(***************************************************************************)
Max(a, b) == IF a >= b THEN a ELSE b
Min(a, b) == IF a <= b THEN a ELSE b

RECURSIVE SeqSum(_)
SeqSum(s) == IF s = <<>> THEN 0 ELSE Head(s) + SeqSum(Tail(s))

(***************************************************************************)
(* Inputs of the aggregator: the sub-scores the earlier stages deliver.    *)
(* The values sit on both sides of the thresholds 70 and 80 of the issue   *)
(* rules and contain the scenario 85/90/85/80/85/100.                      *)
(***************************************************************************)
Scores == {0, 69, 70, 79, 80, 85, 90, 100}

(***************************************************************************)
(* calculateOverallScore  (uiValidator.ts:413-434)                         *)
(***************************************************************************)
\* Object.entries(breakdown): the keys in the order the literal of
\* validateUI (lines 90-97) inserts them.
BreakdownKeys == <<"visualSimilarity", "layoutAccuracy", "colorMatching",
                   "typographyMatch", "interactionElements", "brandConsistency">>

\* The weights with typographyMatch and brandConsistency exchanged.
weights_exchanged == [visualSimilarity    |-> 25,
                      layoutAccuracy      |-> 20,
                      colorMatching       |-> 15,
                      typographyMatch     |-> 10,
                      interactionElements |-> 15,
                      brandConsistency    |-> 15]

\* const weights = {...}, in hundredths.
weights == [visualSimilarity    |-> 25,
            layoutAccuracy      |-> 20,
            colorMatching       |-> 15,
            typographyMatch     |-> 15,
            interactionElements |-> 15,
            brandConsistency    |-> 10]

\* The for loop: accumulates totalScore and totalWeight over the entries.
RECURSIVE WeightedTotals(_, _, _)
WeightedTotals(b, keys, acc) ==
    IF keys = <<>> THEN acc
    ELSE LET key == Head(keys)
             weight == IF key \in DOMAIN weights THEN weights[key]
                       ELSE 0                            \* weights[key] || 0
         IN  WeightedTotals(b, Tail(keys),
                 [totalScore  |-> acc.totalScore + b[key] * weight,
                  totalWeight |-> acc.totalWeight + weight])

\* Object.values(breakdown)
BreakdownValues(b) == [i \in 1..Len(BreakdownKeys) |-> b[BreakdownKeys[i]]]

\* The breakdowns over Scores for which the exact weighted mean is k + 1/2
\* and the double value of totalScore / totalWeight is below it
\* (e.g. 75.49999999999999 for the first row), in the order of BreakdownKeys.
\* For every other breakdown over Scores the double value rounds as the
\* exact one does.
HalfLost ==
    {
      <<90, 79, 100, 79, 69, 0>>, <<90, 79, 100, 79, 69, 70>>, <<90, 79, 100, 79, 69, 80>>,
      <<90, 79, 100, 79, 69, 90>>, <<90, 79, 100, 79, 69, 100>>, <<90, 79, 100, 79, 79, 85>>,
      <<100, 69, 90, 79, 69, 0>>, <<100, 69, 90, 79, 69, 70>>, <<100, 69, 90, 79, 69, 80>>,
      <<100, 69, 90, 79, 69, 90>>, <<100, 69, 90, 79, 69, 100>>, <<100, 69, 90, 79, 79, 85>>,
      <<100, 69, 100, 69, 69, 0>>, <<100, 69, 100, 69, 69, 70>>, <<100, 69, 100, 69, 69, 80>>,
      <<100, 69, 100, 69, 69, 90>>, <<100, 69, 100, 69, 69, 100>>, <<100, 69, 100, 69, 79, 85>>,
      <<100, 69, 100, 79, 69, 85>>, <<100, 69, 100, 79, 79, 0>>, <<100, 69, 100, 79, 79, 70>>,
      <<100, 69, 100, 79, 79, 80>>, <<100, 69, 100, 79, 79, 90>>, <<100, 69, 100, 79, 79, 100>>,
      <<100, 79, 80, 79, 69, 85>>, <<100, 79, 80, 79, 79, 0>>, <<100, 79, 80, 79, 79, 70>>,
      <<100, 79, 80, 79, 79, 80>>, <<100, 79, 80, 79, 79, 90>>, <<100, 79, 80, 79, 79, 100>>,
      <<100, 79, 90, 69, 69, 85>>, <<100, 79, 90, 69, 79, 0>>, <<100, 79, 90, 69, 79, 70>>,
      <<100, 79, 90, 69, 79, 80>>, <<100, 79, 90, 69, 79, 90>>, <<100, 79, 90, 69, 79, 100>>,
      <<100, 79, 90, 79, 69, 0>>, <<100, 79, 90, 79, 69, 70>>, <<100, 79, 90, 79, 69, 80>>,
      <<100, 79, 90, 79, 69, 90>>, <<100, 79, 90, 79, 69, 100>>, <<100, 79, 90, 79, 79, 85>>,
      <<100, 79, 100, 69, 69, 0>>, <<100, 79, 100, 69, 69, 70>>, <<100, 79, 100, 69, 69, 80>>,
      <<100, 79, 100, 69, 69, 90>>, <<100, 79, 100, 69, 69, 100>>, <<100, 79, 100, 69, 79, 85>>,
      <<100, 79, 100, 79, 69, 85>>, <<100, 79, 100, 79, 79, 0>>, <<100, 79, 100, 79, 79, 70>>,
      <<100, 79, 100, 79, 79, 80>>, <<100, 79, 100, 79, 79, 90>>, <<100, 79, 100, 79, 79, 100>>
    }

\* Math.round(totalScore / totalWeight)
calculateOverallScore(b) ==
    LET t == WeightedTotals(b, BreakdownKeys,
                            [totalScore |-> 0, totalWeight |-> 0])
        \* round half up, exact
        up == (2 * t.totalScore + t.totalWeight) \div (2 * t.totalWeight)
    IN  IF BreakdownValues(b) \in HalfLost THEN up - 1 ELSE up

(***************************************************************************)
(* identifyIssues  (uiValidator.ts:436-493)                                *)
(***************************************************************************)
IssueLowSimilarity ==
    [type |-> "layout", severity |-> "high",
     description |-> "visual similarity is low",
     suggestion  |-> "adjust layout and colors to match the original more closely"]
IssueLayout ==
    [type |-> "layout", severity |-> "medium",
     description |-> "layout structure differs from the original",
     suggestion  |-> "modify the HTML structure to match the original image"]
IssueInteraction ==
    [type |-> "interaction", severity |-> "medium",
     description |-> "interaction elements are missing",
     suggestion  |-> "add clickable elements such as buttons and links"]
IssueColor ==
    [type |-> "color", severity |-> "high",
     description |-> "colors differ from the original",
     suggestion  |-> "use the brand colors exactly"]
IssueTypography ==
    [type |-> "typography", severity |-> "medium",
     description |-> "font differs from the original",
     suggestion  |-> "use the correct font family and size"]

PushIf(cond, list, issue) == IF cond THEN Append(list, issue) ELSE list

\* identifyIssues with the color rule at 80 instead of 70.
identifyIssues_color80(pc, ai, st) ==
    LET i1 == PushIf(pc.similarity < 80, <<>>, IssueLowSimilarity)
        i2 == PushIf(st.layoutScore < 70, i1, IssueLayout)
        i3 == PushIf(st.interactionScore < 80, i2, IssueInteraction)
        i4 == PushIf(ai.colorScore < 80, i3, IssueColor)
        i5 == PushIf(ai.typographyScore < 70, i4, IssueTypography)
    IN  i5

identifyIssues(pc, ai, st) ==
    LET i1 == PushIf(pc.similarity < 80, <<>>, IssueLowSimilarity)   \* similarity < 0.8
        i2 == PushIf(st.layoutScore < 70, i1, IssueLayout)
        i3 == PushIf(st.interactionScore < 80, i2, IssueInteraction)
        i4 == PushIf(ai.colorScore < 70, i3, IssueColor)
        i5 == PushIf(ai.typographyScore < 70, i4, IssueTypography)
    IN  i5

(***************************************************************************)
(* calculateConfidence  (uiValidator.ts:530-540)                           *)
(***************************************************************************)
\* With n scores of sum T, variance = (n * sum(s^2) - T^2) / n^2, so
\* standardDeviation = sqrt(Q) / n with Q = n * sum(s^2) - T^2.
DeviationNumerator(scores) ==
    LET n == Len(scores)
        T == SeqSum(scores)
        sq == [i \in 1..n |-> scores[i] * scores[i]]
    IN  n * SeqSum(sq) - T * T

\* The least r in lo..hi with r * r >= x (Math.sqrt, rounded up).
RECURSIVE CeilSqrt(_, _, _)
CeilSqrt(x, lo, hi) ==
    IF lo >= hi THEN lo
    ELSE LET mid == (lo + hi) \div 2
         IN  IF mid * mid >= x THEN CeilSqrt(x, lo, mid)
                               ELSE CeilSqrt(x, mid + 1, hi)

\* Math.round(Math.max(0, 100 - sqrt(Q)/n)).  Math.round(x) is the largest
\* integer c with c - 1/2 <= x, i.e. sqrt(4*Q) <= 2*n*(100 - c) + n.  With
\* r the square root of 4*Q rounded up, c = 100 - ceil((r - n) / (2*n)),
\* not below 0.  (Over Scores the double value rounds as the exact one does,
\* also where 100 - sqrt(Q)/n is exactly k + 1/2.)
\* calculateConfidence with the deviation added instead of subtracted.
calculateConfidence_added(b) ==
    LET scores == BreakdownValues(b)
        n == Len(scores)
        Q == DeviationNumerator(scores)
        r == CeilSqrt(4 * Q, 0, 2 * n * 100)
    IN  100 + (r + n) \div (2 * n)

calculateConfidence(b) ==
    LET scores == BreakdownValues(b)
        n == Len(scores)
        Q == DeviationNumerator(scores)
        r == CeilSqrt(4 * Q, 0, 2 * n * 100)
        drop == IF r <= n THEN 0 ELSE (r - n + 2 * n - 1) \div (2 * n)
        top == Max(0, 100 - drop)
    IN  top

(***************************************************************************)
(* Strings  (the String and RegExp operations detectBrand relies on)       *)
(***************************************************************************)
\* String.prototype.toUpperCase / toLowerCase on one character; characters
\* outside A-Z, a-z (digits, '#', space, Hangul) have no case.
UpperTable ==
    ("a" :> "A") @@ ("b" :> "B") @@ ("c" :> "C") @@ ("d" :> "D") @@
    ("e" :> "E") @@ ("f" :> "F") @@ ("g" :> "G") @@ ("h" :> "H") @@
    ("i" :> "I") @@ ("j" :> "J") @@ ("k" :> "K") @@ ("l" :> "L") @@
    ("m" :> "M") @@ ("n" :> "N") @@ ("o" :> "O") @@ ("p" :> "P") @@
    ("q" :> "Q") @@ ("r" :> "R") @@ ("s" :> "S") @@ ("t" :> "T") @@
    ("u" :> "U") @@ ("v" :> "V") @@ ("w" :> "W") @@ ("x" :> "X") @@
    ("y" :> "Y") @@ ("z" :> "Z")

LowerTable ==
    ("A" :> "a") @@ ("B" :> "b") @@ ("C" :> "c") @@ ("D" :> "d") @@
    ("E" :> "e") @@ ("F" :> "f") @@ ("G" :> "g") @@ ("H" :> "h") @@
    ("I" :> "i") @@ ("J" :> "j") @@ ("K" :> "k") @@ ("L" :> "l") @@
    ("M" :> "m") @@ ("N" :> "n") @@ ("O" :> "o") @@ ("P" :> "p") @@
    ("Q" :> "q") @@ ("R" :> "r") @@ ("S" :> "s") @@ ("T" :> "t") @@
    ("U" :> "u") @@ ("V" :> "v") @@ ("W" :> "w") @@ ("X" :> "x") @@
    ("Y" :> "y") @@ ("Z" :> "z")

\* String.prototype.toLowerCase
toLowerCase(s) ==
    [i \in 1..Len(s) |-> IF s[i] \in DOMAIN LowerTable THEN LowerTable[s[i]]
                         ELSE s[i]]

\* the pattern element ".?"
OptionalAny == ".?"

\* the characters "." does not match
LineTerminators == {"U+000A", "U+000D", "U+2028", "U+2029"}

\* Canonicalize of the i flag: every character of the pattern and of the
\* text is compared in its toUpperCase form (".?" is not a character and
\* stays).
Canonicalize(s, ignoreCase) ==
    IF ignoreCase
    THEN [i \in 1..Len(s) |-> IF s[i] \in DOMAIN UpperTable THEN UpperTable[s[i]]
                              ELSE s[i]]
    ELSE s

\* Backtracking match of the pattern elements P[k..] at the 0-based position
\* pos of T (both canonicalized): the position after the match, or -1.
\* ".?" is greedy: it first takes one character, and nothing if that fails.
RECURSIVE MatchAt(_, _, _, _)
MatchAt(T, P, pos, k) ==
    IF k > Len(P) THEN pos
    ELSE IF P[k] = OptionalAny
    THEN LET taken == IF pos < Len(T) /\ T[pos + 1] \notin LineTerminators
                      THEN MatchAt(T, P, pos + 1, k + 1)
                      ELSE -1
         IN  IF taken # -1 THEN taken
             ELSE MatchAt(T, P, pos, k + 1)
    ELSE IF pos < Len(T) /\ P[k] = T[pos + 1]
    THEN MatchAt(T, P, pos + 1, k + 1)
    ELSE -1

\* The positions >= i at which the pattern matches.  A pattern that begins
\* with a character can only match where that character stands.
MatchStarts(T, P, i) ==
    LET candidates ==
            IF P = <<>> \/ P[1] = OptionalAny THEN i..Len(T)
            ELSE {j \in i..(Len(T) - 1) : T[j + 1] = P[1]}
    IN  {j \in candidates : MatchAt(T, P, j, 1) # -1}

\* exec that leaves lastIndex at the end of the text when nothing matches.
RegExpExec_keepsIndex(text, re) ==
    LET T == Canonicalize(text, re.ignoreCase)
        P == Canonicalize(re.source, re.ignoreCase)
        starts == MatchStarts(T, P, re.lastIndex)
    IN  IF starts = {}
        THEN [matched |-> FALSE, index |-> -1,
              re |-> [re EXCEPT !.lastIndex = Len(text)]]
        ELSE LET first == CHOOSE j \in starts : \A j2 \in starts : j <= j2
             IN  [matched |-> TRUE, index |-> first,
                  re |-> [re EXCEPT !.lastIndex = MatchAt(T, P, first, 1)]]

\* RegExp.prototype.exec of a global pattern: finds the first match at or
\* behind lastIndex and sets lastIndex behind it, or to 0 when there is none.
RegExpExec(text, re) ==
    LET T == Canonicalize(text, re.ignoreCase)
        P == Canonicalize(re.source, re.ignoreCase)
        starts == MatchStarts(T, P, re.lastIndex)
    IN  IF starts = {}
        THEN [matched |-> FALSE, index |-> -1,
              re |-> [re EXCEPT !.lastIndex = 0]]
        ELSE LET first == CHOOSE j \in starts : \A j2 \in starts : j <= j2
             IN  [matched |-> TRUE, index |-> first,
                  re |-> [re EXCEPT !.lastIndex = MatchAt(T, P, first, 1)]]

\* The loop of String.prototype.match for a global pattern: exec until it
\* fails, stepping over an empty match.  n counts the matches.
RECURSIVE MatchLoop(_, _, _)
MatchLoop(text, re, n) ==
    LET r == RegExpExec(text, re)
    IN  IF ~r.matched THEN [count |-> n, re |-> r.re]
        ELSE MatchLoop(text,
                 IF r.re.lastIndex = r.index
                 THEN [r.re EXCEPT !.lastIndex = r.index + 1] ELSE r.re,
                 n + 1)

\* A match that searches once, from where the previous use of the pattern
\* object stopped (RegExp.prototype.test instead of String.prototype.match).
StringMatch_fromLastIndex(text, re) ==
    LET r == RegExpExec(text, re)
    IN  [count |-> IF r.matched THEN 1 ELSE 0, re |-> r.re]

\* text.match(re) for a global re: starts at lastIndex 0 whatever the
\* pattern object held; count is the length of the result (0 for null).
StringMatch(text, re) == MatchLoop(text, [re EXCEPT !.lastIndex = 0], 0)

\* new RegExp(keyword, 'gi'); the keywords of the registry contain no
\* pattern syntax.
KeywordRegExp(keyword) ==
    [source |-> keyword, ignoreCase |-> TRUE, lastIndex |-> 0]

(***************************************************************************)
(* BrandDatabase: the registry after construction                          *)
(* (brandDatabase.ts:288-296, initializeBrands, setupBrandDetection)       *)
(***************************************************************************)
\* this.brands after initializeBrands; of a BrandAssets value the model
\* keeps colors.primary / secondary / accent, the part detectBrand reads.
KakaoAssets == [colors |-> [primary   |-> <<"#", "F", "E", "E", "5", "0", "0">>,
                            secondary |-> <<"#", "1", "9", "1", "9", "1", "9">>,
                            accent    |-> <<"#", "F", "F", "6", "B", "3", "5">>]]
NaverAssets == [colors |-> [primary   |-> <<"#", "0", "3", "C", "7", "5", "A">>,
                            secondary |-> <<"#", "F", "7", "F", "9", "F", "A">>,
                            accent    |-> <<"#", "1", "E", "C", "8", "0", "0">>]]

InitialBrands ==
    [name \in {"toss", "kakao", "naver"} |->
        CASE name = "toss"  ->
                 [colors |-> [primary   |-> <<"#", "0", "0", "6", "4", "F", "F">>,
                              secondary |-> <<"#", "F", "5", "F", "7", "F", "A">>,
                              accent    |-> <<"#", "F", "F", "6", "B", "3", "5">>]]
          [] name = "kakao" -> KakaoAssets
          [] name = "naver" -> NaverAssets]

\* this.brandKeywords after setupBrandDetection: the entries of the Map in
\* insertion order.
InitialKeywords ==
    << [name |-> "toss",  keywords |-> <<
        <<"t", "o", "s", "s">>,
        <<"U+D1A0", "U+C2A4">>,
        <<"v", "i", "v", "a", " ", "r", "e", "p", "u", "b", "l", "i", "c", "a">>,
        <<"U+BE44", "U+BC14", "U+B9AC", "U+D37C", "U+BE14", "U+B9AC", "U+CE74">>,
        <<"U+C1A1", "U+AE08">>,
        <<"U+AC04", "U+D3B8", "U+ACB0", "U+C81C">>,
        <<"U+D1A0", "U+C2A4", "U+D398", "U+C774">>,
        <<"t", "o", "s", "s", " ", "p", "a", "y">>,
        <<"U+D22C", "U+C790">>,
        <<"U+C99D", "U+AD8C">>,
        <<"U+C8FC", "U+C2DD">>,
        <<"s", "t", "o", "c", "k">>,
        <<"s", "e", "c", "u", "r", "i", "t", "i", "e", "s">> >>],
       [name |-> "kakao", keywords |-> <<
        <<"k", "a", "k", "a", "o">>,
        <<"U+CE74", "U+CE74", "U+C624">>,
        <<"k", "a", "k", "a", "o", "b", "a", "n", "k">>,
        <<"U+CE74", "U+CE74", "U+C624", "U+BC45", "U+D06C">>,
        <<"k", "a", "k", "a", "o", "t", "a", "l", "k">>,
        <<"U+CE74", "U+CE74", "U+C624", "U+D1A1">>,
        <<"k", "a", "k", "a", "o", "p", "a", "y">>,
        <<"U+CE74", "U+CE74", "U+C624", "U+D398", "U+C774">> >>],
       [name |-> "naver", keywords |-> <<
        <<"n", "a", "v", "e", "r">>,
        <<"U+B124", "U+C774", "U+BC84">>,
        <<"l", "i", "n", "e">>,
        <<"U+B77C", "U+C778">>,
        <<"n", "a", "v", "e", "r", " ", "p", "a", "y">>,
        <<"U+B124", "U+C774", "U+BC84", "U+D398", "U+C774">>,
        <<"w", "e", "b", "t", "o", "o", "n">>,
        <<"U+C6F9", "U+D230">> >>] >>

\* this.brandPatterns after setupBrandDetection: the RegExp objects, each
\* with the lastIndex it carries.
InitialPatterns ==
    [name \in {"toss", "kakao", "naver"} |->
        CASE name = "toss"  -> <<
        [source |-> <<"t", "o", "s", "s">>, ignoreCase |-> TRUE, lastIndex |-> 0],
        [source |-> <<"U+D1A0", "U+C2A4">>, ignoreCase |-> FALSE, lastIndex |-> 0],
        [source |-> <<"v", "i", "v", "a", OptionalAny, "r", "e", "p", "u", "b", "l", "i", "c", "a">>, ignoreCase |-> TRUE, lastIndex |-> 0],
        [source |-> <<"#", "0", "0", "6", "4", "f", "f">>, ignoreCase |-> TRUE, lastIndex |-> 0],
        [source |-> <<"t", "o", "s", "s", OptionalAny, "f", "a", "c", "e">>, ignoreCase |-> TRUE, lastIndex |-> 0] >>
          [] name = "kakao" -> <<
        [source |-> <<"k", "a", "k", "a", "o">>, ignoreCase |-> TRUE, lastIndex |-> 0],
        [source |-> <<"U+CE74", "U+CE74", "U+C624">>, ignoreCase |-> FALSE, lastIndex |-> 0],
        [source |-> <<"#", "f", "e", "e", "5", "0", "0">>, ignoreCase |-> TRUE, lastIndex |-> 0],
        [source |-> <<"k", "a", "k", "a", "o", "r", "e", "g", "u", "l", "a", "r">>, ignoreCase |-> TRUE, lastIndex |-> 0] >>
          [] name = "naver" -> <<
        [source |-> <<"n", "a", "v", "e", "r">>, ignoreCase |-> TRUE, lastIndex |-> 0],
        [source |-> <<"U+B124", "U+C774", "U+BC84">>, ignoreCase |-> FALSE, lastIndex |-> 0],
        [source |-> <<"#", "0", "3", "c", "7", "5", "a">>, ignoreCase |-> TRUE, lastIndex |-> 0],
        [source |-> <<"n", "o", "t", "o", OptionalAny, "s", "a", "n", "s">>, ignoreCase |-> TRUE, lastIndex |-> 0] >>]

(***************************************************************************)
(* detectBrand  (brandDatabase.ts:1078-1142)                               *)
(***************************************************************************)
\* The keyword score with 10 per keyword that occurs, however often.
RECURSIVE KeywordScore_perKeyword(_, _)
KeywordScore_perKeyword(text, keywords) ==
    IF keywords = <<>> THEN 0
    ELSE (IF StringMatch(text, KeywordRegExp(Head(keywords))).count > 0
          THEN 10 ELSE 0)
         + KeywordScore_perKeyword(text, Tail(keywords))

\* lines 1086-1092: keywords.forEach, 10 per match of new RegExp(keyword,'gi')
RECURSIVE KeywordScore(_, _)
KeywordScore(text, keywords) ==
    IF keywords = <<>> THEN 0
    ELSE StringMatch(text, KeywordRegExp(Head(keywords))).count * 10
         + KeywordScore(text, Tail(keywords))

\* The color score with the palette colors compared as they are written.
ColorScore_caseSensitive(colorPalette, brandsMap, brandName) ==
    IF Len(colorPalette) > 0 /\ brandName \in DOMAIN brandsMap
    THEN LET colors == brandsMap[brandName].colors
             brandColors == {toLowerCase(colors.primary),
                             toLowerCase(colors.secondary),
                             toLowerCase(colors.accent)}
         IN  25 * Cardinality({i \in 1..Len(colorPalette) :
                                   colorPalette[i] \in brandColors})
    ELSE 0

\* lines 1104-1119: 25 per palette color that is one of the profile's
\* primary / secondary / accent colors, both sides lower-cased.
ColorScore(colorPalette, brandsMap, brandName) ==
    IF Len(colorPalette) > 0 /\ brandName \in DOMAIN brandsMap
    THEN LET colors == brandsMap[brandName].colors
             brandColors == {toLowerCase(colors.primary),
                             toLowerCase(colors.secondary),
                             toLowerCase(colors.accent)}
         IN  25 * Cardinality({i \in 1..Len(colorPalette) :
                                   toLowerCase(colorPalette[i]) \in brandColors})
    ELSE 0

\* lines 1082-1124: the loop over this.brandKeywords.  acc.scores is the
\* Map scores (entries in insertion order), acc.patterns the state of
\* this.brandPatterns.
RECURSIVE ScoreBrands(_, _, _, _, _)
ScoreBrands(text, colorPalette, brandsMap, entries, acc) ==
    IF entries = <<>> THEN acc
    ELSE LET brandName == Head(entries).name
             patterns == IF brandName \in DOMAIN acc.patterns
                         THEN acc.patterns[brandName] ELSE <<>>   \* || []
             \* lines 1095-1101: patterns.forEach, 15 per match; the pattern
             \* objects are the shared ones of the registry and are returned
             \* as the matching leaves them
             m == [i \in 1..Len(patterns) |-> StringMatch(text, patterns[i])]
             p == [score    |-> 15 * SeqSum([i \in 1..Len(patterns) |-> m[i].count]),
                   patterns |-> [i \in 1..Len(patterns) |-> m[i].re]]
             score == KeywordScore(text, Head(entries).keywords)
                      + p.score
                      + ColorScore(colorPalette, brandsMap, brandName)
         IN  ScoreBrands(text, colorPalette, brandsMap, Tail(entries),
                 [scores   |-> IF score > 0
                               THEN Append(acc.scores,
                                           [name |-> brandName, score |-> score])
                               ELSE acc.scores,
                  patterns |-> IF brandName \in DOMAIN acc.patterns
                               THEN [acc.patterns EXCEPT ![brandName] = p.patterns]
                               ELSE acc.patterns])

\* Insertion of e into a list sorted by descending score, before the
\* entries that have the same score.
RECURSIVE InsertByScore_beforeEqual(_, _)
InsertByScore_beforeEqual(sorted, e) ==
    IF sorted = <<>> THEN <<e>>
    ELSE IF Head(sorted).score > e.score
         THEN <<Head(sorted)>> \o InsertByScore_beforeEqual(Tail(sorted), e)
         ELSE <<e>> \o sorted

\* Insertion of e into a list sorted by descending score, behind the entries
\* that have the same score: Array.prototype.sort is stable.
RECURSIVE InsertByScore(_, _)
InsertByScore(sorted, e) ==
    IF sorted = <<>> THEN <<e>>
    ELSE IF Head(sorted).score >= e.score
         THEN <<Head(sorted)>> \o InsertByScore(Tail(sorted), e)
         ELSE <<e>> \o sorted

\* lines 1131-1132: Array.from(scores.entries()).sort((a, b) => b[1] - a[1])
RECURSIVE SortByScore(_, _)
SortByScore(entries, sorted) ==
    IF entries = <<>> THEN sorted
    ELSE SortByScore(Tail(entries), InsertByScore(sorted, Head(entries)))

NoBrand == "null"

\* const maxScore = 100
maxScore == 100

\* the threshold of line 1139, confidence > 0.3, in hundredths
ConfidenceThreshold == 30

\* The match built without the threshold: the top brand is always named.
BrandMatchOf_alwaysNamed(sortedScores) ==
    LET topBrand == sortedScores[1]
        conf == Min((topBrand.score * 100) \div maxScore, 100)
    IN  [brand |-> topBrand.name, confidence |-> conf]

\* lines 1134-1141: the match built from the sorted scores; confidence is
\* Math.min(topBrand[1] / maxScore, 1), in hundredths.
BrandMatchOf(sortedScores) ==
    LET topBrand == sortedScores[1]
        conf == Min((topBrand.score * 100) \div maxScore, 100)
    IN  [brand |-> IF conf > ConfidenceThreshold THEN topBrand.name ELSE NoBrand,
         confidence |-> conf]

\* The whole method: the BrandMatch returned, with the Map scores and the
\* state the pattern objects are left in.
detectBrand(text, colorPalette, brandsMap, keywordEntries, patternsMap) ==
    LET acc == ScoreBrands(text, colorPalette, brandsMap, keywordEntries,
                           [scores |-> <<>>, patterns |-> patternsMap])
    IN  [match    |-> IF Len(acc.scores) = 0               \* scores.size === 0
                      THEN [brand |-> NoBrand, confidence |-> 0]
                      ELSE BrandMatchOf(SortByScore(acc.scores, <<>>)),
         scores   |-> acc.scores,
         patterns |-> acc.patterns]

(***************************************************************************)
(* Inputs of detectBrand                                                   *)
(***************************************************************************)
MaxWords  == 2    \* words in a text
MaxColors == 2    \* colors in a palette

W_toss     == <<"t", "o", "s", "s">>
W_TossFace == <<"T", "o", "s", "s", "F", "a", "c", "e">>
W_kakao    == <<"k", "a", "k", "a", "o">>
W_hexBlue  == <<"#", "0", "0", "6", "4", "f", "f">>

JoinWord(s, w) == IF s = <<>> THEN w ELSE s \o <<" ">> \o w

\* the texts of at most n words, separated by single spaces
RECURSIVE Sentences(_, _)
Sentences(words, n) ==
    IF n = 0 THEN {<<>>}
    ELSE LET shorter == Sentences(words, n - 1)
         IN  shorter \cup {JoinWord(s, w) : s \in shorter, w \in words}

\* "toss payment app"
ScenarioText ==
    <<"t", "o", "s", "s", " ", "p", "a", "y", "m", "e", "n", "t", " ", "a", "p", "p">>

Blue      == <<"#", "0", "0", "6", "4", "F", "F">>
PaleGray  == <<"#", "F", "5", "F", "7", "F", "A">>
OrangeLow == <<"#", "f", "f", "6", "b", "3", "5">>

\* the arguments of addBrand / updateBrand and the files of loadFromFile
NameLower == [Toss |-> "toss", acme |-> "acme"]     \* brandName.toLowerCase()

(***************************************************************************)
(* Image files and rasters.  A file is missing, holds bytes that are no    *)
(* image ("corrupt"), or decodes to a raster whose pixels are listed row   *)
(* by row, each pixel <<r, g, b>>.  The rasters of the model have 1, 3 or  *)
(* 102 pixels: more than the 100 differences comparePixelLevel records.    *)
(* On these rasters the similarity the source computes in doubles and its  *)
(* exact value have the same whole hundredths.                             *)
(***************************************************************************)
Black == <<0, 0, 0>>
White == <<255, 255, 255>>

PixelColors == {Black, <<10, 10, 10>>, <<0, 100, 100>>, White}

MissingFile == [state |-> "missing", width |-> 0, height |-> 0, pixels |-> <<>>]
CorruptFile == [state |-> "corrupt", width |-> 0, height |-> 0, pixels |-> <<>>]

\* the rasters of w x h pixels: the first k of color a, the others of color b
RastersOf(w, h) ==
    {[state |-> "image", width |-> w, height |-> h,
      pixels |-> [i \in 1..(w * h) |-> IF i <= k THEN a ELSE b]] :
        k \in {1, Max(1, w * h - 1)}, a \in PixelColors, b \in PixelColors}

Rasters == UNION {RastersOf(d[1], d[2]) : d \in {<<1, 1>>, <<3, 1>>, <<34, 3>>}}

(***************************************************************************)
(* comparePixelLevel  (uiValidator.ts:209-274)                             *)
(* Distances are kept in hundredths, rounded down; a severity is kept in   *)
(* units of 1/25500, so that SeverityOne stands for 1; the similarity is   *)
(* kept in whole hundredths, rounded down.                                 *)
(***************************************************************************)
threshold == 30

DifferenceLimit == 100

SeverityOne == 255 * 100

\* 255 * Math.sqrt(3), in hundredths
MaxDistance == 44167

\* the largest r in lo..hi with r * r <= x
RECURSIVE FloorSqrt(_, _, _)
FloorSqrt(x, lo, hi) ==
    IF lo = hi THEN lo
    ELSE LET mid == (lo + hi + 1) \div 2
         IN  IF mid * mid <= x THEN FloorSqrt(x, mid, hi)
                               ELSE FloorSqrt(x, lo, mid - 1)

Square(a) == a * a

\* lines 240-244: Math.sqrt of the sum of the squared channel differences;
\* the distances of the colors of the model, computed once
DistanceTable ==
    LET Distance(color1, color2) ==
            FloorSqrt(10000 * (Square(color2[1] - color1[1])
                               + Square(color2[2] - color1[2])
                               + Square(color2[3] - color1[3])), 0, 46340)
    IN  [pair \in PixelColors \X PixelColors |-> Distance(pair[1], pair[2])]

\* lines 251-256
Difference_unbounded(x, y, diff) ==
    [region |-> [x |-> x, y |-> y, width |-> 1, height |-> 1],
     type |-> "color",
     severity |-> diff,
     description |-> (diff + 50) \div 100]

Difference(x, y, diff) ==
    [region |-> [x |-> x, y |-> y, width |-> 1, height |-> 1],
     type |-> "color",
     severity |-> Min(diff, SeverityOne),
     description |-> (diff + 50) \div 100]

\* The body of the loop with the accumulation ending at the region limit.
PixelStep_stopsAtLimit(o, r, i, acc) ==
    LET diff == DistanceTable[<<o.pixels[i + 1], r.pixels[i + 1]>>]
        x == i % o.width
        y == i \div o.width
        open == Len(acc.differences) < DifferenceLimit
    IN  [totalDifference |-> acc.totalDifference + (IF open THEN diff ELSE 0),
         pixelCount |-> acc.pixelCount + 1,
         differences |->
             IF diff > threshold * 100 /\ open
             THEN Append(acc.differences, Difference(x, y, diff))
             ELSE acc.differences]

\* lines 237-257: the body of the loop for the pixel i = y * width + x; acc
\* is [totalDifference, pixelCount, differences]
PixelStep(o, r, i, acc) ==
    LET diff == DistanceTable[<<o.pixels[i + 1], r.pixels[i + 1]>>]
        x == i % o.width
        y == i \div o.width
    IN  [totalDifference |-> acc.totalDifference + diff,
         pixelCount |-> acc.pixelCount + 1,
         differences |->
             IF diff > threshold * 100 /\ Len(acc.differences) < DifferenceLimit
             THEN Append(acc.differences, Difference(x, y, diff))
             ELSE acc.differences]

\* lines 235-259: the iterations first <= i < last in their order (the
\* range is halved to keep the evaluation shallow)
RECURSIVE PixelLoop(_, _, _, _, _)
PixelLoop(o, r, first, last, acc) ==
    IF first >= last THEN acc
    ELSE IF last = first + 1 THEN PixelStep(o, r, first, acc)
    ELSE LET mid == (first + last) \div 2
         IN  PixelLoop(o, r, mid, last, PixelLoop(o, r, first, mid, acc))

\* lines 262-266
Similarity_ofDifference(totalDifference, pixelCount) ==
    LET maxPossibleDifference == pixelCount * MaxDistance
    IN  Max(0, (100 * totalDifference) \div maxPossibleDifference)

Similarity(totalDifference, pixelCount) ==
    LET maxPossibleDifference == pixelCount * MaxDistance
    IN  Max(0, (100 * (maxPossibleDifference - totalDifference))
                   \div maxPossibleDifference)

\* line 272
PixelFallback == [similarity |-> 50, differences |-> <<>>]

\* original.resize(width, height): a raster of that size already is left
\* as it is, otherwise the pixels are interpolated by the library
Resize(img, width, height) ==
    IF img.width = width /\ img.height = height THEN {img}
    ELSE {r \in Rasters : r.width = width /\ r.height = height}

\* lines 229-268, on the two rasters of equal size
ComparePixels(o, r) ==
    LET acc == PixelLoop(o, r, 0, o.width * o.height,
                         [totalDifference |-> 0, pixelCount |-> 0,
                          differences |-> <<>>])
    IN  [similarity |-> Similarity(acc.totalDifference, acc.pixelCount),
         differences |->
             SubSeq(acc.differences, 1, Min(Len(acc.differences), 100))]

\* Jimp.read throws on a file that is missing or is no image (line 217-218)
Readable(file) == file.state = "image"

\* the values comparePixelLevel can return: lines 215-273
comparePixelLevel_rethrows(originalFile, renderedFile) ==
    IF Readable(originalFile) /\ Readable(renderedFile)
    THEN LET width == Min(originalFile.width, renderedFile.width)
             height == Min(originalFile.height, renderedFile.height)
         IN  {ComparePixels(o, r) : o \in Resize(originalFile, width, height),
                                    r \in Resize(renderedFile, width, height)}
    ELSE {}

comparePixelLevel(originalFile, renderedFile) ==
    IF Readable(originalFile) /\ Readable(renderedFile)
    THEN LET width == Min(originalFile.width, renderedFile.width)
             height == Min(originalFile.height, renderedFile.height)
         IN  {ComparePixels(o, r) : o \in Resize(originalFile, width, height),
                                    r \in Resize(renderedFile, width, height)}
    ELSE {PixelFallback}

(***************************************************************************)
(* The arguments of validateUI and the outcomes of its collaborators.      *)
(* job.code is the file at generatedCodePath, as far as the stages look    *)
(* at it: the numbers of matches of the three expressions of               *)
(* analyzeStructure (lines 360-362) and the results of the includes tests  *)
(* of validateBrandConsistency (lines 395-405).                            *)
(***************************************************************************)
NoCode == [state |-> "missing", elementCount |-> 0, interactionElements |-> 0,
           tossBlue |-> FALSE, tossFont |-> FALSE, borderRadius |-> FALSE]

\* children: analysisResult.componentStructure.children.length, 0 also
\* when there is no children array; interactions:
\* analysisResult.interactionElements.length
NoJob == [ext |-> "", renderer |-> "ok", vision |-> "ok", code |-> NoCode,
          children |-> 0, interactions |-> 0, detectedBrand |-> ""]

\* the image files of a validation: similarity * 100 is a whole number
StageFiles ==
    {MissingFile, CorruptFile} \cup
    {f \in RastersOf(1, 1) : f.pixels[1] \in {Black, White}}

Resolved == [threw |-> FALSE, message |-> ""]
Threw(message) == [threw |-> TRUE, message |-> message]

(***************************************************************************)
(* renderCodeToImage and the renderers  (uiValidator.ts:123-207)           *)
(***************************************************************************)
\* renderHTMLToImage (lines 142-176): the browser is launched and reads the
\* file; every error is logged and thrown again.  renderReactToImage (lines
\* 178-195): a placeholder image is written with Jimp.  Lines 197-207: for
\* .vue and .dart the path is returned, nothing is rendered.
renderCodeToImage(j) ==
    LET renderHTMLToImage ==
            IF j.renderer = "throws" THEN Threw("renderer")
            ELSE IF j.code.state = "missing" THEN Threw("ENOENT")
            ELSE Resolved
        renderReactToImage ==
            IF j.renderer = "throws" THEN Threw("renderer") ELSE Resolved
    IN  IF j.ext = ".html" THEN renderHTMLToImage
        ELSE IF j.ext \in {".jsx", ".tsx"} THEN renderReactToImage
        ELSE IF j.ext \in {".vue", ".dart"} THEN Resolved
        ELSE Threw("Unsupported code format")

(***************************************************************************)
(* performAIAnalysis  (uiValidator.ts:276-347)                             *)
(***************************************************************************)
AIParsed == [colorScore |-> 85, typographyScore |-> 80, layoutScore |-> 90,
             brandScore |-> 85, details |-> "response"]

\* fs.readFile of both images and the request to the vision model are
\* inside the try (lines 297-324)
performAIAnalysis_parsedAnyway(originalFile, renderedFile, j) == AIParsed

performAIAnalysis(originalFile, renderedFile, j) ==
    IF \/ originalFile.state = "missing"
       \/ renderedFile.state = "missing"
       \/ j.vision = "throws"
    THEN [colorScore |-> 70, typographyScore |-> 70, layoutScore |-> 70,
          brandScore |-> 70, details |-> "AI analysis failed"]
    ELSE AIParsed

(***************************************************************************)
(* analyzeStructure  (uiValidator.ts:349-379)                              *)
(***************************************************************************)
\* Math.min(100, (count / expected) * 100); the quotients of the model are
\* whole numbers
Percentage(count, expected) == Min(100, (count * 100) \div expected)

(***************************************************************************)
(* The database and the calls on it                                        *)
(***************************************************************************)
NoMatch == [brand |-> "none", confidence |-> -1]
NoCall == [valid |-> FALSE, text |-> <<>>, colorPalette |-> <<>>,
           match |-> NoMatch]

\* new BrandDatabase()  (index.ts:29), no call made yet
DatabaseConstructed ==
    /\ brands = InitialBrands
    /\ brandKeywords = InitialKeywords
    /\ brandPatterns = InitialPatterns
    /\ callScores = <<>>
    /\ result = NoMatch
    /\ earlier = NoCall

ValidatorIdle ==
    /\ pixelComparison = NoValue
    /\ aiAnalysis = NoValue
    /\ structuralAnalysis = NoValue
    /\ brandConsistency = NoValue
    /\ breakdown = NoValue
    /\ overallScore = NoValue
    /\ issues = NoValue
    /\ confidence = NoValue
    /\ vpc = "idle"

DatabaseIdle ==
    /\ DatabaseConstructed
    /\ callText = <<>>
    /\ callPalette = <<>>
    /\ dpc = "idle"

\* A caller passes (text, colorPalette) to detectBrand.  earlier may keep
\* the call that has just returned, for the comparison with a later one.
Invoke ==
    /\ dpc \in {"idle", "done"}
    /\ \E t \in {W_toss, JoinWord(W_toss, W_toss), JoinWord(W_toss, W_kakao)},
          c \in {<<>>, <<OrangeLow, OrangeLow>>} :
          /\ callText' = t
          /\ callPalette' = c
    /\ earlier' \in {earlier} \cup
                    IF dpc = "done"
                    THEN {[valid |-> TRUE, text |-> callText,
                           colorPalette |-> callPalette, match |-> result]}
                    ELSE {}
    /\ dpc' = "call"
    /\ UNCHANGED <<brands, brandKeywords, brandPatterns, callScores, result>>
    /\ UNCHANGED <<aggVars, stageVars, analyzerVars, serverVars>>

\* detectBrand(text, colorPalette) runs to its return.
DetectBrand ==
    /\ dpc = "call"
    /\ \E d \in {detectBrand(callText, callPalette, brands, brandKeywords, brandPatterns)} :
           /\ result' = d.match
           /\ callScores' = d.scores
           /\ brandPatterns' = d.patterns
    /\ dpc' = "done"
    /\ UNCHANGED <<brands, brandKeywords, callText, callPalette, earlier>>
    /\ UNCHANGED <<aggVars, stageVars, analyzerVars, serverVars>>

\* this.brands.set(key, value)
MapSet(map, key, value) ==
    [k \in DOMAIN map \cup {key} |-> IF k = key THEN value ELSE map[k]]

\* addBrand  (brandDatabase.ts:1169-1171)
AddBrand ==
    /\ dpc \in {"idle", "done"}
    /\ \E brandName \in (DOMAIN NameLower), assets \in {KakaoAssets} :
          brands' = MapSet(brands, NameLower[brandName], assets)
    /\ earlier' = NoCall
    /\ dpc' = "idle"
    /\ UNCHANGED <<brandKeywords, brandPatterns, callText, callPalette, callScores,
                   result>>
    /\ UNCHANGED <<aggVars, stageVars, analyzerVars, serverVars>>

\* updateBrand  (brandDatabase.ts:1174-1179)
UpdateBrand ==
    /\ dpc \in {"idle", "done"}
    /\ \E brandName \in (DOMAIN NameLower),
          updates \in {<<>>, [colors |-> NaverAssets.colors]} :  \* Partial<BrandAssets>
          LET key == NameLower[brandName]
              Spread(existing) ==                   \* { ...existing, ...updates }
                  [k \in DOMAIN existing \cup DOMAIN updates |->
                      IF k \in DOMAIN updates THEN updates[k] ELSE existing[k]]
          IN  IF key \in DOMAIN brands                     \* if (existing)
              THEN brands' = MapSet(brands, key, Spread(brands[key]))
              ELSE brands' = brands
    /\ earlier' = NoCall
    /\ dpc' = "idle"
    /\ UNCHANGED <<brandKeywords, brandPatterns, callText, callPalette, callScores,
                   result>>
    /\ UNCHANGED <<aggVars, stageVars, analyzerVars, serverVars>>

\* loadFromFile  (brandDatabase.ts:1193-1209); a failing read is caught and
\* leaves the data as it is.  file is what fs.readJSON delivers: it throws,
\* or the parsed object.
LoadFromFile ==
    /\ dpc \in {"idle", "done"}
    /\ \E file \in
          LET fileBrands   == [name \in {"toss"} |-> NaverAssets]
              fileKeywords == << [name |-> "kakao", keywords |-> <<W_toss>>],
                                 [name |-> "toss",  keywords |-> <<W_toss>>] >>
          IN  { [readable |-> FALSE, data |-> <<>>],
                [readable |-> TRUE,  data |-> <<>>],
                [readable |-> TRUE,  data |-> [brands |-> fileBrands]],
                [readable |-> TRUE,  data |-> [keywords |-> fileKeywords]],
                [readable |-> TRUE,  data |-> [brands |-> fileBrands,
                                               keywords |-> fileKeywords]] } :
          /\ brands' = IF file.readable /\ "brands" \in DOMAIN file.data
                       THEN file.data.brands ELSE brands
          /\ brandKeywords' = IF file.readable /\ "keywords" \in DOMAIN file.data
                              THEN file.data.keywords ELSE brandKeywords
    /\ earlier' = NoCall
    /\ dpc' = "idle"
    /\ UNCHANGED <<brandPatterns, callText, callPalette, callScores, result>>
    /\ UNCHANGED <<aggVars, stageVars, analyzerVars, serverVars>>


(***************************************************************************)
(* extractColorPalette  (imageAnalyzer.ts:145-179)                         *)
(* data is the raw buffer of the image resized to 50 x 50, a sequence of   *)
(* bytes.  The loop reads three bytes per step whatever the number of      *)
(* channels, so the last step can read behind the end of the buffer, where *)
(* data[i] is undefined and the arithmetic yields NaN.                     *)
(***************************************************************************)
\* not a number; no byte and no rounded channel is negative
NaN == -1

PaletteSize == 5

ByteAt(data, i) == IF i + 1 <= Len(data) THEN data[i + 1] ELSE NaN

\* Math.round(v / 16) * 16: halves are rounded up
RoundTo16(v) == IF v = NaN THEN NaN ELSE ((v + 8) \div 16) * 16

Digits == <<"0", "1", "2", "3", "4", "5", "6", "7", "8", "9">>

RECURSIVE Decimal(_)
Decimal(n) ==
    IF n < 10 THEN <<Digits[n + 1]>>
    ELSE Decimal(n \div 10) \o <<Digits[(n % 10) + 1]>>

NumberText(v) == IF v = NaN THEN <<"N", "a", "N">> ELSE Decimal(v)

\* `rgb(${roundedR}, ${roundedG}, ${roundedB})`
RgbText(r, g, b) ==
    <<"r", "g", "b", "(">> \o NumberText(r) \o <<",", " ">> \o NumberText(g)
        \o <<",", " ">> \o NumberText(b) \o <<")">>

\* lines 156-168; colorMap.set(color, (colorMap.get(color) || 0) + 1): a
\* Map keeps its entries in the order of insertion
RECURSIVE SampleLoop(_, _, _)
SampleLoop(data, i, colorMap) ==
    IF i >= Len(data) THEN colorMap
    ELSE LET roundedR == RoundTo16(ByteAt(data, i))
             roundedG == RoundTo16(ByteAt(data, i + 1))
             roundedB == RoundTo16(ByteAt(data, i + 2))
             color == RgbText(roundedR, roundedG, roundedB)
             counted ==
                 IF \E k \in 1..Len(colorMap) : colorMap[k].color = color
                 THEN [k \in 1..Len(colorMap) |->
                          IF colorMap[k].color = color
                          THEN [colorMap[k] EXCEPT !.count = @ + 1]
                          ELSE colorMap[k]]
                 ELSE Append(colorMap, [color |-> color, count |-> 1])
         IN  SampleLoop(data, i + 3, counted)

\* .sort((a, b) => b[1] - a[1]): Array.prototype.sort is stable
RECURSIVE InsertByCount_beforeEqual(_, _)
InsertByCount_beforeEqual(sorted, e) ==
    IF sorted = <<>> THEN <<e>>
    ELSE IF Head(sorted).count <= e.count THEN <<e>> \o sorted
    ELSE <<Head(sorted)>> \o InsertByCount_beforeEqual(Tail(sorted), e)

RECURSIVE InsertByCount(_, _)
InsertByCount(sorted, e) ==
    IF sorted = <<>> THEN <<e>>
    ELSE IF Head(sorted).count < e.count THEN <<e>> \o sorted
    ELSE <<Head(sorted)>> \o InsertByCount(Tail(sorted), e)

RECURSIVE SortByCount(_, _)
SortByCount(entries, sorted) ==
    IF entries = <<>> THEN sorted
    ELSE SortByCount(Tail(entries), InsertByCount(sorted, Head(entries)))

\* .slice(0, 5)
TopColors_all(entries) == entries

TopColors(entries) == SubSeq(entries, 1, Min(Len(entries), PaletteSize))

\* .map(([color]) => color): an entry of the palette is the color text
\* alone, the count is dropped
ColorOnly(entry) == [color |-> entry.color]

\* line 177
FallbackPalette ==
    << [color |-> <<"#", "f", "f", "f", "f", "f", "f">>],
       [color |-> <<"#", "0", "0", "0", "0", "0", "0">>],
       [color |-> <<"#", "f", "0", "f", "0", "f", "0">>],
       [color |-> <<"#", "3", "3", "3", "3", "3", "3">>],
       [color |-> <<"#", "0", "0", "7", "b", "f", "f">>] >>

Returns(value) == [threw |-> FALSE, message |-> "", value |-> value]

\* raw: what sharp(imageBuffer).resize(50, 50).raw().toBuffer() does
extractColorPalette_propagates(raw) ==
    IF raw.threw THEN [threw |-> TRUE, message |-> "sharp", value |-> <<>>]
    ELSE LET ranked == TopColors(SortByCount(SampleLoop(raw.data, 0, <<>>), <<>>))
         IN  Returns([k \in 1..Len(ranked) |-> ColorOnly(ranked[k])])

extractColorPalette(raw) ==
    IF raw.threw THEN Returns(FallbackPalette)
    ELSE LET ranked == TopColors(SortByCount(SampleLoop(raw.data, 0, <<>>), <<>>))
         IN  Returns([k \in 1..Len(ranked) |-> ColorOnly(ranked[k])])

(***************************************************************************)
(* The buffers of the model: at most MaxSamples samples of three bytes,    *)
(* followed or not by one byte more (a buffer of 50 x 50 pixels of four    *)
(* channels has 10000 bytes, one more than a multiple of 3).               *)
(***************************************************************************)
MaxSamples == 5

RECURSIVE Buffers(_)
Buffers(n) ==
    IF n = 0 THEN {<<>>}
    ELSE LET shorter == Buffers(n - 1)
             sampleBytes == { <<0, 0, 0>>, <<7, 7, 7>>, <<8, 8, 8>>,
                              <<255, 255, 255>>, <<255, 0, 0>>, <<0, 100, 255>> }
         IN  shorter \cup {d \o s : d \in shorter, s \in sampleBytes}

Decoded(data) == [threw |-> FALSE, data |-> data]
DecodeFailure == [threw |-> TRUE, data |-> <<>>]

(***************************************************************************)
(* analyzeImage  (imageAnalyzer.ts:73-143)                                 *)
(* image: the file at imagePath (exists, ext = path.extname(imagePath)),   *)
(* what sharp reads of it (metadata, width, height, raw), whether the      *)
(* analyzer has a vision model (openai) and what that replies.             *)
(***************************************************************************)
Ext_png  == <<".", "p", "n", "g">>
Ext_PNG  == <<".", "P", "N", "G">>
Ext_jpeg == <<".", "j", "p", "e", "g">>

\* line 83
SupportedFormats ==
    {Ext_png, <<".", "j", "p", "g">>, Ext_jpeg, <<".", "b", "m", "p">>}

\* analyzeWithAI throws
AIFailure == [threw |-> TRUE, message |-> "request failed", elements |-> <<>>,
              layout |-> ""]

AnalyzerIdle ==
    /\ image = [exists |-> FALSE, ext |-> <<>>, metadata |-> "ok", width |-> 0,
                height |-> 0, raw |-> DecodeFailure, openai |-> FALSE,
                reply |-> AIFailure]
    /\ palette = <<>>
    /\ elements = <<>>
    /\ layout = NoValue
    /\ calls = <<>>
    /\ rejection = NoValue
    /\ apc = "idle"

\* line 103: layout.type of the basic analysisResult
DefaultLayout == "flow"

\* lines 78-93
CheckImage_anyDimensions(img) ==
    IF ~img.exists THEN Threw("Image file not found")
    ELSE IF toLowerCase(img.ext) \notin SupportedFormats
    THEN Threw("Unsupported image format")
    ELSE IF img.metadata = "throws" THEN Threw("sharp")
    ELSE Resolved

CheckImage(img) ==
    IF ~img.exists THEN Threw("Image file not found")
    ELSE IF toLowerCase(img.ext) \notin SupportedFormats
    THEN Threw("Unsupported image format")
    ELSE IF img.metadata = "throws" THEN Threw("sharp")
    ELSE IF img.width = 0 \/ img.height = 0
    THEN Threw("Could not read image dimensions")
    ELSE Resolved

\* lines 284-319, the types of the elements
generateBasicElements(img) ==
    IF 2 * img.width > 3 * img.height       \* width > height * 1.5
    THEN <<"header", "container">>
    ELSE <<"container">>

\* lines 78-122: the checks, and the basic analysisResult
ValidateInput ==
    /\ apc = "validate"
    /\ \E outcome \in {CheckImage(image)} :
          IF outcome.threw
          THEN /\ rejection' = outcome.message
               /\ apc' = "rejected"
               /\ layout' = layout
          ELSE /\ rejection' = rejection
               /\ apc' = "extract"
               /\ layout' = DefaultLayout
    /\ UNCHANGED <<image, palette, elements, calls>>
    /\ UNCHANGED <<aggVars, brandVars, stageVars, serverVars>>

\* line 125
ExtractColorPalette ==
    /\ apc = "extract"
    /\ calls' = Append(calls, "extractColorPalette")
    /\ \E outcome \in {extractColorPalette(image.raw)} :
          IF outcome.threw
          THEN /\ rejection' = outcome.message
               /\ apc' = "rejected"
               /\ palette' = palette
          ELSE /\ palette' = outcome.value
               /\ apc' = "ai"
               /\ rejection' = rejection
    /\ UNCHANGED <<image, elements, layout>>
    /\ UNCHANGED <<aggVars, brandVars, stageVars, serverVars>>

\* lines 128-135: an error of analyzeWithAI is caught and the basic
\* analysis is kept; a reply is merged (lines 271-277)
AnalyzeWithAI_uncaught ==
    /\ apc = "ai"
    /\ IF image.openai
       THEN /\ calls' = Append(calls, "analyzeWithAI")
            /\ elements' = IF image.reply.threw THEN elements
                           ELSE image.reply.elements
            /\ layout' = IF image.reply.threw \/ image.reply.layout = ""
                         THEN layout ELSE image.reply.layout
            /\ rejection' = IF image.reply.threw THEN image.reply.message
                            ELSE rejection
            /\ apc' = IF image.reply.threw THEN "rejected" ELSE "elements"
       ELSE /\ UNCHANGED <<calls, elements, layout, rejection>>
            /\ apc' = "elements"
    /\ UNCHANGED <<image, palette>>
    /\ UNCHANGED <<aggVars, brandVars, stageVars, serverVars>>

AnalyzeWithAI ==
    /\ apc = "ai"
    /\ IF image.openai
       THEN /\ calls' = Append(calls, "analyzeWithAI")
            /\ elements' = IF image.reply.threw THEN elements
                           ELSE image.reply.elements
            /\ layout' = IF image.reply.threw \/ image.reply.layout = ""
                         THEN layout ELSE image.reply.layout
       ELSE UNCHANGED <<calls, elements, layout>>
    /\ apc' = "elements"
    /\ UNCHANGED <<image, palette, rejection>>
    /\ UNCHANGED <<aggVars, brandVars, stageVars, serverVars>>

\* lines 138-142
GenerateBasicElements ==
    /\ apc = "elements"
    /\ elements' = IF Len(elements) = 0 THEN generateBasicElements(image)
                   ELSE elements
    /\ apc' = "returned"
    /\ UNCHANGED <<image, palette, layout, calls, rejection>>
    /\ UNCHANGED <<aggVars, brandVars, stageVars, serverVars>>

(***************************************************************************)
(* validateUI, steps 1 to 5  (uiValidator.ts:59-87).  A stage that throws  *)
(* is caught at line 117 and validateUI rejects (line 119).                *)
(***************************************************************************)
StagesIdle ==
    /\ original = MissingFile
    /\ rendered = MissingFile
    /\ job = NoJob
    /\ thrown = NoValue

Reject(message) ==
    /\ thrown' = message
    /\ vpc' = "rejected"

\* The comparison started without awaiting the renderer.
RenderCodeToImage_notAwaited ==
    /\ vpc = "render"
    /\ vpc' = "compare"
    /\ UNCHANGED <<pixelComparison, aiAnalysis, structuralAnalysis,
                   brandConsistency, breakdown, overallScore, issues,
                   confidence>>
    /\ UNCHANGED stageVars
    /\ UNCHANGED <<brandVars, analyzerVars, serverVars>>

\* line 61
RenderCodeToImage ==
    /\ vpc = "render"
    /\ \E outcome \in {renderCodeToImage(job)} :
          IF outcome.threw
          THEN Reject(outcome.message)
          ELSE vpc' = "compare" /\ thrown' = thrown
    /\ UNCHANGED <<pixelComparison, aiAnalysis, structuralAnalysis,
                   brandConsistency, breakdown, overallScore, issues,
                   confidence>>
    /\ UNCHANGED <<original, rendered, job>>
    /\ UNCHANGED <<brandVars, analyzerVars, serverVars>>

\* lines 64-67; comparePixelLevel rejects when it has no value to return
ComparePixelLevel ==
    /\ vpc = "compare"
    /\ \E outcomes \in {comparePixelLevel(original, rendered)} :
          IF outcomes = {}
          THEN Reject("pixel comparison") /\ pixelComparison' = pixelComparison
          ELSE /\ \E pc \in outcomes : pixelComparison' = pc
               /\ vpc' = "ai"
               /\ thrown' = thrown
    /\ UNCHANGED <<aiAnalysis, structuralAnalysis, brandConsistency, breakdown,
                   overallScore, issues, confidence>>
    /\ UNCHANGED <<original, rendered, job>>
    /\ UNCHANGED <<brandVars, analyzerVars, serverVars>>

\* lines 70-74
PerformAIAnalysis ==
    /\ vpc = "ai"
    /\ aiAnalysis' = performAIAnalysis(original, rendered, job)
    /\ vpc' = "structure"
    /\ UNCHANGED <<pixelComparison, structuralAnalysis, brandConsistency,
                   breakdown, overallScore, issues, confidence>>
    /\ UNCHANGED stageVars
    /\ UNCHANGED <<brandVars, analyzerVars, serverVars>>

\* lines 77-81 and analyzeStructure (lines 349-379); fs.readFile of the
\* code (line 357) is outside any try
AnalyzeStructure ==
    /\ vpc = "structure"
    /\ IF job.code.state = "missing"
       THEN Reject("ENOENT") /\ structuralAnalysis' = structuralAnalysis
       ELSE /\ LET expectedElements == IF job.children = 0 THEN 5
                                       ELSE job.children
                   expectedInteractions == job.interactions
               IN  structuralAnalysis' =
                     [layoutScore |->
                          Percentage(job.code.elementCount, expectedElements),
                      interactionScore |->
                          IF expectedInteractions > 0
                          THEN Percentage(job.code.interactionElements,
                                          expectedInteractions)
                          ELSE 100,
                      structuralComplexity |-> job.code.elementCount,
                      interactionComplexity |-> job.code.interactionElements]
            /\ vpc' = "brand"
            /\ thrown' = thrown
    /\ UNCHANGED <<pixelComparison, aiAnalysis, brandConsistency, breakdown,
                   overallScore, issues, confidence>>
    /\ UNCHANGED <<original, rendered, job>>
    /\ UNCHANGED <<brandVars, analyzerVars, serverVars>>

\* lines 84-87 and validateBrandConsistency (lines 381-411); fs.readFile of
\* the code (line 387) is outside any try
ValidateBrandConsistency ==
    /\ vpc = "brand"
    /\ IF job.code.state = "missing"
       THEN Reject("ENOENT") /\ brandConsistency' = brandConsistency
       ELSE /\ LET toss == job.detectedBrand = "toss"
                   s0 == 100
                   s1 == IF toss /\ ~job.code.tossBlue THEN s0 - 30 ELSE s0
                   s2 == IF toss /\ ~job.code.tossFont THEN s1 - 20 ELSE s1
                   s3 == IF toss /\ ~job.code.borderRadius THEN s2 - 20 ELSE s2
               IN  brandConsistency' = Max(0, s3)
            /\ vpc' = "aggregate"
            /\ thrown' = thrown
    /\ UNCHANGED <<pixelComparison, aiAnalysis, structuralAnalysis, breakdown,
                   overallScore, issues, confidence>>
    /\ UNCHANGED <<original, rendered, job>>
    /\ UNCHANGED <<brandVars, analyzerVars, serverVars>>

(***************************************************************************)
(* analyzeImageAdvanced  (advancedImageAnalyzer.ts:325-373) and the five   *)
(* sub-analyses it awaits with Promise.all (lines 375-719).  advInput:     *)
(* whether fs.readFile reads the image, the vision-model requests that     *)
(* fail (failing), whether the model names toss in its reply to            *)
(* identifyBrand, and what Jimp.read and sharp's stats do (decoding).      *)
(* Each section holds the fields of the value that tell the parsed value   *)
(* from the value of the catch.                                            *)
(***************************************************************************)
\* lines 339-345: the array given to Promise.all
SubAnalyses == {"pixelMeasurements", "brandIdentification",
                "componentStructure", "preciseColorPalette",
                "interactionElements"}

\* no sub-analysis has resolved
NoSections ==
    [pixelMeasurements |-> [gridSystem |-> [type |-> "", rows |-> 0],
                            typography |-> [fonts |-> 0, lineHeights |-> 0]],
     brandIdentification |-> [detectedBrand |-> "", confidence |-> 0,
                              brandAssets |-> ""],
     componentStructure |-> [type |-> "", children |-> 0],
     preciseColorPalette |-> [dominant |-> 0, wcagCompliant |-> FALSE],
     interactionElements |-> <<>>]

\* One sub-analysis goes on from the await it is suspended at to its next
\* await or to its end: analyzePixelMeasurements (lines 375-396: Jimp.read,
\* detectGridSystem 398-457, analyzeTypography 486-552), identifyBrand
\* (554-603), analyzeComponentStructure (605-645), extractPreciseColors
\* (647-680) and detectInteractionElements (682-719).  Every request to the
\* vision model is inside a try whose catch returns a value; Jimp.read and
\* image.stats() are not.
SubAnalysisStep ==
    /\ advpc \in {"running", "rejected"}
    /\ \E t \in SubAnalyses :
          LET pc == subpc[t]
              failed(call) == call \in advInput.failing
              next ==
                  CASE pc = "decode" ->
                         IF advInput.decoding = "Jimp.read throws"
                         THEN "failed" ELSE "grid"
                    [] pc = "grid" -> "typography"
                    [] pc = "stats" ->
                         IF advInput.decoding = "stats throws"
                         THEN "failed" ELSE "done"
                    [] OTHER -> "done"
              value ==
                  CASE pc = "grid" ->
                         [sections[t] EXCEPT !.gridSystem =
                             IF failed("detectGridSystem")
                             THEN [type |-> "flexbox", rows |-> 1]
                             ELSE [type |-> "css-grid", rows |-> 6]]
                    [] pc = "typography" ->
                         [sections[t] EXCEPT !.typography =
                             IF failed("analyzeTypography")
                             THEN [fonts |-> 0, lineHeights |-> 3]
                             ELSE [fonts |-> 1, lineHeights |-> 5]]
                    [] pc = "call" /\ t = "brandIdentification" ->
                         IF ~failed("identifyBrand") /\ advInput.toss
                         THEN [detectedBrand |-> "toss", confidence |-> 95,
                               brandAssets |-> "toss"]
                         ELSE [detectedBrand |-> "null", confidence |-> 0,
                               brandAssets |-> "generic"]
                    \* parseComponentStructure returns the default structure
                    [] pc = "call" /\ t = "componentStructure" ->
                         [type |-> "div", children |-> 0]
                    \* the histogram is empty, every() of no ratios is true
                    [] pc = "stats" /\ next = "done" ->
                         [dominant |-> 0, wcagCompliant |-> TRUE]
                    [] OTHER -> sections[t]
          IN  /\ pc \notin {"idle", "done", "failed"}
              /\ subpc' = [subpc EXCEPT ![t] = next]
              /\ sections' = [sections EXCEPT ![t] = value]
              /\ settled' = IF next = "done" THEN Append(settled, t)
                            ELSE settled
    /\ UNCHANGED <<advInput, advResult, advpc>>
    /\ UNCHANGED <<request, response, written, requirementsFile, modifications,
                   report, conversions, lastCommand>>
    /\ UNCHANGED <<aggVars, brandVars, stageVars, analyzerVars>>

\* lines 329-347: the file is read and the five sub-analyses are started,
\* each running to its first await; a failing read goes to the catch
AnalyzeImageAdvanced ==
    /\ advpc = "called"
    /\ IF advInput.readable
       THEN /\ subpc' = [t \in SubAnalyses |->
                            CASE t = "pixelMeasurements" -> "decode"
                              [] t = "preciseColorPalette" -> "stats"
                              [] OTHER -> "call"]
            /\ advpc' = "running"
       ELSE /\ subpc' = subpc
            /\ advpc' = "rejected"
    /\ UNCHANGED <<advInput, sections, settled, advResult>>
    /\ UNCHANGED <<request, response, written, requirementsFile, modifications,
                   report, conversions, lastCommand>>
    /\ UNCHANGED <<aggVars, brandVars, stageVars, analyzerVars>>

\* The result built when the first of the five has resolved.
AwaitAll_firstResolved ==
    /\ advpc = "running"
    /\ IF \E t \in SubAnalyses : subpc[t] = "failed"
       THEN advpc' = "rejected" /\ advResult' = advResult
       ELSE /\ \E t \in SubAnalyses : subpc[t] = "done"
            /\ LET brandConfidence == sections.brandIdentification.confidence
                   total == 85 + 90 + 80 + 95 + brandConfidence
               IN  advResult' =
                     [pixelMeasurements |-> sections.pixelMeasurements,
                      brandIdentification |-> sections.brandIdentification,
                      componentStructure |-> sections.componentStructure,
                      preciseColorPalette |-> sections.preciseColorPalette,
                      interactionElements |-> sections.interactionElements,
                      analysisQuality |->
                          [overallScore |-> (2 * total + 5) \div 10,
                           confidence |-> brandConfidence]]
            /\ advpc' = "returned"
    /\ UNCHANGED <<advInput, subpc, sections, settled>>
    /\ UNCHANGED <<request, response, written, requirementsFile, modifications,
                   report, conversions, lastCommand>>
    /\ UNCHANGED <<aggVars, brandVars, stageVars, analyzerVars>>

\* lines 339-372: Promise.all rejects with the first rejection and the catch
\* throws 'Advanced analysis failed'; it resolves when all five have
\* resolved, and the result is built with calculateQualityMetrics (lines
\* 721-745; confidence in hundredths)
AwaitAll ==
    /\ advpc = "running"
    /\ IF \E t \in SubAnalyses : subpc[t] = "failed"
       THEN advpc' = "rejected" /\ advResult' = advResult
       ELSE /\ \A t \in SubAnalyses : subpc[t] = "done"
            /\ LET brandConfidence == sections.brandIdentification.confidence
                   total == 85 + 90 + 80 + 95 + brandConfidence
               IN  advResult' =
                     [pixelMeasurements |-> sections.pixelMeasurements,
                      brandIdentification |-> sections.brandIdentification,
                      componentStructure |-> sections.componentStructure,
                      preciseColorPalette |-> sections.preciseColorPalette,
                      interactionElements |-> sections.interactionElements,
                      analysisQuality |->
                          [overallScore |-> (2 * total + 5) \div 10,
                           confidence |-> brandConfidence]]
            /\ advpc' = "returned"
    /\ UNCHANGED <<advInput, subpc, sections, settled>>
    /\ UNCHANGED <<request, response, written, requirementsFile, modifications,
                   report, conversions, lastCommand>>
    /\ UNCHANGED <<aggVars, brandVars, stageVars, analyzerVars>>

(***************************************************************************)
(* The CallTool request handler  (index.ts:291-571).  request is           *)
(* request.params: the tool name, whether arguments were sent, and of the  *)
(* arguments saveAnalysis and outputPath ("omitted" when absent); tool is  *)
(* what the called service does.                                           *)
(***************************************************************************)
ToolNames == {"ITU-init", "ITU-start", "ITU-modify", "ITU-status",
              "ITU-premium", "ITU-validate", "ITU-analyze"}

NoResponse == [threw |-> FALSE, isError |-> FALSE, text |-> <<>>]

ServerIdle ==
    /\ request = [name |-> "", hasArguments |-> FALSE, saveAnalysis |-> "omitted",
                  outputPath |-> "omitted", tool |-> "resolves"]
    /\ response = NoResponse
    /\ written = NoValue
    /\ requirementsFile = NoValue
    /\ modifications = NoValue
    /\ report = NoValue
    /\ conversions = 0
    /\ lastCommand = NoValue
    /\ advInput = NoValue
    /\ subpc = [t \in SubAnalyses |-> "idle"]
    /\ sections = NoSections
    /\ settled = <<>>
    /\ advResult = NoValue
    /\ advpc = "idle"

\* lines 291-571: [response, written]; a response with threw is an error
\* thrown out of the handler.  An omitted argument is undefined, which is
\* falsy (lines 507-508); the case of the called tool is abridged to what
\* it answers and writes.
CallToolHandler(req) ==
    LET ErrorResponse(message) ==                             \* lines 560-570
            [threw |-> FALSE, isError |-> TRUE, text |-> <<"Error: ", message>>]
        outputPath ==                                         \* line 508
            IF req.outputPath \in {"omitted", ""} THEN "./analysis-result.json"
            ELSE req.outputPath
    IN  IF ~req.hasArguments                                  \* lines 294-296
        THEN [response |-> [threw |-> TRUE, isError |-> FALSE,
                            text |-> <<"", "No arguments provided">>],
              written |-> NoValue]
        ELSE IF req.name \notin ToolNames                     \* lines 557-558
        THEN [response |-> ErrorResponse("Unknown tool: " \o req.name),
              written |-> NoValue]
        ELSE IF req.tool = "throws"
        THEN [response |-> ErrorResponse("tool failed"), written |-> NoValue]
        ELSE [response |-> [threw |-> FALSE, isError |-> FALSE,
                            text |-> <<"", req.name>>],
              written |-> IF req.name = "ITU-analyze" /\ req.saveAnalysis = "true"
                          THEN outputPath                     \* lines 507-513
                          ELSE NoValue]

CallTool ==
    /\ response = NoResponse
    /\ \E outcome \in {CallToolHandler(request)} :
          /\ response' = outcome.response
          /\ written' = outcome.written
    /\ UNCHANGED <<request, requirementsFile, modifications, report, conversions,
                   lastCommand>>
    /\ UNCHANGED <<advInput, subpc, sections, settled, advResult, advpc>>
    /\ UNCHANGED <<aggVars, brandVars, stageVars, analyzerVars>>

(***************************************************************************)
(* ITUCommands  (advancedImageAnalyzer.ts:966-1379)                        *)
(* requirementsFile is itu_requirements.md as generateRequirementsMarkdown *)
(* writes it: one field for each line the model follows (the settings and  *)
(* the layout section both have a Responsive line), the Images Processed   *)
(* line and the two lists of recent paths.  A property that is undefined   *)
(* is written as the text "undefined".                                     *)
(***************************************************************************)
MaxRuns == 3

\* an ITUModifications object without properties; names are the properties
\* a given layout or components object has
NoModifications ==
    [framework |-> "",
     layout |-> [given |-> FALSE, names |-> {}, type |-> "grid", spacing |-> 24],
     components |-> [given |-> FALSE, names |-> {}, buttonStyle |-> "pill",
                     borderRadius |-> 4]]

\* lines 1174-1225
generateRequirementsMarkdown(requirements) ==
    [exists |-> TRUE,
     framework |-> requirements.framework,
     responsive |-> requirements.responsive,
     layoutType |-> requirements.layout.type,
     layoutResponsive |-> requirements.layout.responsive,
     layoutSpacing |-> requirements.layout.spacing,
     buttonStyle |-> requirements.components.buttonStyle,
     borderRadius |-> requirements.components.borderRadius,
     imagesProcessed |-> Len(requirements.history.images),
     recentImages |-> requirements.history.images,       \* slice(-5)
     recentOutputs |-> requirements.history.outputs]

\* lines 1227-1287: extractValue takes the first line the pattern matches,
\* so both responsive fields are read from the Responsive line of the
\* settings; the history lists are not read
parseRequirementsMarkdown(content) ==
    [framework |-> IF content.framework = "" THEN "react"
                   ELSE content.framework,
     responsive |-> content.responsive,
     layout |-> [type |-> IF content.layoutType = "" THEN "flexbox"
                          ELSE content.layoutType,
                 responsive |-> content.responsive,
                 spacing |-> content.layoutSpacing],
     components |-> [buttonStyle |-> IF content.buttonStyle = "" THEN "rounded"
                                     ELSE content.buttonStyle,
                     borderRadius |-> content.borderRadius],
     history |-> [images |-> <<>>, outputs |-> <<>>]]

\* lines 1289-1327: m.layout.names are the properties the layout object of
\* the modifications has; type: modifications.layout.type (line 1311) and
\* buttonStyle: modifications.components.buttonStyle (line 1319) are
\* written after the spreads, whether the object has the property or not
applyModifications(requirements, m) ==
    [requirements EXCEPT
        !.framework = IF m.framework # "" THEN m.framework ELSE @,
        !.layout = IF m.layout.given
                   THEN [@ EXCEPT
                           !.type = IF "type" \in m.layout.names
                                    THEN m.layout.type ELSE "undefined",
                           !.spacing = IF "spacing" \in m.layout.names
                                       THEN m.layout.spacing ELSE @]
                   ELSE @,
        !.components = IF m.components.given
                       THEN [@ EXCEPT
                               !.buttonStyle =
                                   IF "buttonStyle" \in m.components.names
                                   THEN m.components.buttonStyle
                                   ELSE "undefined",
                               !.borderRadius =
                                   IF "borderRadius" \in m.components.names
                                   THEN m.components.borderRadius ELSE @]
                       ELSE @]

\* lines 1051-1102 after loadRequirements: the file start leaves; the
\* analysis and the generation resolve or throw, and the history is pushed
\* and saved at the end (lines 1084-1090)
start(content, imagePath, outcome) ==
    IF outcome = "throws" THEN content
    ELSE LET requirements == parseRequirementsMarkdown(content)
             pushed == [requirements EXCEPT
                           !.history.images = Append(@, imagePath),
                           !.history.outputs = Append(@, "ui-" \o imagePath)]
         IN  generateRequirementsMarkdown(pushed)

\* lines 1051-1102; loadRequirements throws when there is no file
Start ==
    /\ conversions < MaxRuns
    /\ \E outcome \in {"resolves", "throws"} :
          /\ requirementsFile' = IF requirementsFile.exists
                                 THEN start(requirementsFile, "a.png", outcome)
                                 ELSE requirementsFile
          /\ conversions' = IF requirementsFile.exists /\ outcome = "resolves"
                            THEN conversions + 1 ELSE conversions
    /\ lastCommand' = "start"
    /\ UNCHANGED <<request, response, written, modifications, report>>
    /\ UNCHANGED <<advInput, subpc, sections, settled, advResult, advpc>>
    /\ UNCHANGED <<aggVars, brandVars, stageVars, analyzerVars>>

\* lines 1104-1121: load, apply, save, then start with the saved file
Modify ==
    /\ conversions < MaxRuns
    /\ \E m \in [framework : {"", "vue"},
                  layout : [given : {TRUE}, names : {{"type"}, {"spacing"}},
                            type : {"grid"}, spacing : {24}]
                           \cup {NoModifications.layout},
                  components : [given : {TRUE},
                                names : {{"borderRadius"},
                                         {"buttonStyle", "borderRadius"}},
                                buttonStyle : {"pill"}, borderRadius : {4}]
                               \cup {NoModifications.components}],
          outcome \in {"resolves", "throws"} :
          /\ modifications' = m
          /\ requirementsFile' =
                IF requirementsFile.exists
                THEN LET loaded == parseRequirementsMarkdown(requirementsFile)
                         saved == generateRequirementsMarkdown(
                                      applyModifications(loaded, m))
                     IN  start(saved, "b.png", outcome)
                ELSE requirementsFile
          /\ conversions' = IF requirementsFile.exists /\ outcome = "resolves"
                            THEN conversions + 1 ELSE conversions
    /\ lastCommand' = "modify"
    /\ UNCHANGED <<request, response, written, report>>
    /\ UNCHANGED <<advInput, subpc, sections, settled, advResult, advpc>>
    /\ UNCHANGED <<aggVars, brandVars, stageVars, analyzerVars>>

\* lines 1123-1158: the two counts of the History section, or the text of
\* the catch when there is no file
Status ==
    /\ report' =
          IF requirementsFile.exists
          THEN LET requirements == parseRequirementsMarkdown(requirementsFile)
               IN  [found |-> TRUE,
                    imagesProcessed |-> Len(requirements.history.images),
                    filesGenerated |-> Len(requirements.history.outputs)]
          ELSE [found |-> FALSE, imagesProcessed |-> 0, filesGenerated |-> 0]
    /\ lastCommand' = "status"
    /\ UNCHANGED <<request, response, written, requirementsFile, modifications,
                   conversions>>
    /\ UNCHANGED <<advInput, subpc, sections, settled, advResult, advpc>>
    /\ UNCHANGED <<aggVars, brandVars, stageVars, analyzerVars>>

(***************************************************************************)
(* validateUI, steps 6 to the return  (uiValidator.ts:89-115)              *)
(***************************************************************************)
InitValidate ==
    /\ ServerIdle
    /\ pixelComparison \in [similarity : Scores, differences : {<<>>}]
    /\ aiAnalysis \in [colorScore : Scores, typographyScore : Scores]
    /\ structuralAnalysis \in [layoutScore : Scores, interactionScore : Scores]
    /\ brandConsistency \in Scores
    /\ breakdown = NoValue
    /\ overallScore = NoValue
    /\ issues = NoValue
    /\ confidence = NoValue
    /\ vpc = "aggregate"
    /\ StagesIdle
    /\ DatabaseIdle
    /\ AnalyzerIdle

\* lines 90-99: the breakdown literal and calculateOverallScore
ComputeOverallScore ==
    /\ vpc = "aggregate"
    /\ LET b == [visualSimilarity    |-> pixelComparison.similarity,  \* similarity * 100
                 layoutAccuracy      |-> structuralAnalysis.layoutScore,
                 colorMatching       |-> aiAnalysis.colorScore,
                 typographyMatch     |-> aiAnalysis.typographyScore,
                 interactionElements |-> structuralAnalysis.interactionScore,
                 brandConsistency    |-> brandConsistency]
       IN  /\ breakdown' = b
           /\ overallScore' = calculateOverallScore(b)
    /\ vpc' = "issues"
    /\ UNCHANGED <<pixelComparison, aiAnalysis, structuralAnalysis,
                   brandConsistency, issues, confidence>>
    /\ UNCHANGED <<brandVars, stageVars, analyzerVars, serverVars>>

\* lines 100-104
IdentifyIssues ==
    /\ vpc = "issues"
    /\ issues' = identifyIssues(pixelComparison, aiAnalysis, structuralAnalysis)
    /\ vpc' = "result"
    /\ UNCHANGED <<pixelComparison, aiAnalysis, structuralAnalysis,
                   brandConsistency, breakdown, overallScore, confidence>>
    /\ UNCHANGED <<brandVars, stageVars, analyzerVars, serverVars>>

\* lines 106-115: the result literal with calculateConfidence, and the return
BuildResult ==
    /\ vpc = "result"
    /\ confidence' = calculateConfidence(breakdown)
    /\ vpc' = "returned"
    /\ UNCHANGED <<pixelComparison, aiAnalysis, structuralAnalysis,
                   brandConsistency, breakdown, overallScore, issues>>
    /\ UNCHANGED <<brandVars, stageVars, analyzerVars, serverVars>>

NextValidate == ComputeOverallScore \/ IdentifyIssues \/ BuildResult

SpecValidate == InitValidate /\ [][NextValidate]_vars

(***************************************************************************)
(* Specifications                                                          *)
(***************************************************************************)
\* detectBrand as a function of its input, on the constructed database
InitBrand ==
    /\ ServerIdle
    /\ ValidatorIdle
    /\ StagesIdle
    /\ AnalyzerIdle
    /\ DatabaseConstructed
    /\ LET words == {W_toss, W_TossFace, W_kakao, W_hexBlue,
                     <<"n", "a", "v", "e", "r">>, <<"U+D1A0", "U+C2A4">>,
                     <<"l", "i", "n", "e">>}
       IN  callText \in Sentences(words, MaxWords) \cup {ScenarioText}
    /\ callPalette \in UNION {[1..k -> {Blue, PaleGray, OrangeLow}] : k \in 0..MaxColors}
    /\ dpc = "call"

NextBrand == DetectBrand

SpecBrand == InitBrand /\ [][NextBrand]_vars

\* a database that is called and modified in any order
InitDatabase ==
    ValidatorIdle /\ StagesIdle /\ DatabaseIdle /\ AnalyzerIdle /\ ServerIdle

NextDatabase == Invoke \/ DetectBrand \/ AddBrand \/ UpdateBrand \/ LoadFromFile

SpecDatabase == InitDatabase /\ [][NextDatabase]_vars

NothingComputed ==
    /\ pixelComparison = NoValue
    /\ aiAnalysis = NoValue
    /\ structuralAnalysis = NoValue
    /\ brandConsistency = NoValue
    /\ breakdown = NoValue
    /\ overallScore = NoValue
    /\ issues = NoValue
    /\ confidence = NoValue

\* comparePixelLevel as a function of the two files
InitPixel ==
    /\ ServerIdle
    /\ NothingComputed
    /\ vpc = "compare"
    /\ original \in (Rasters \cup {MissingFile, CorruptFile})
    /\ rendered \in (Rasters \cup {MissingFile, CorruptFile})
    /\ job = NoJob
    /\ thrown = NoValue
    /\ DatabaseIdle
    /\ AnalyzerIdle

NextPixel == ComparePixelLevel

SpecPixel == InitPixel /\ [][NextPixel]_vars

\* validateUI from the call to the return or the rejection.  A renderer
\* that resolved has written the image it names; where no renderer runs
\* its outcome is of no account.
InitValidateUI ==
    /\ ServerIdle
    /\ NothingComputed
    /\ vpc = "render"
    /\ original \in StageFiles
    /\ rendered \in StageFiles
    /\ LET codeFiles ==
               {NoCode} \cup
               [state : {"text"}, elementCount : {0, 3, 8},
                interactionElements : {0, 1}, tossBlue : BOOLEAN,
                tossFont : BOOLEAN, borderRadius : BOOLEAN]
       IN  job \in [ext : {".html", ".tsx", ".vue", ".txt"},
                    renderer : {"ok", "throws"}, vision : {"ok", "throws"},
                    code : codeFiles, children : {0, 4},
                    interactions : {0, 2}, detectedBrand : {"toss", "kakao"}]
    /\ job.ext \notin {".html", ".tsx"} => job.renderer = "ok"
    /\ job.ext = ".txt" => rendered = MissingFile
    /\ (job.ext \in {".html", ".tsx"} /\ ~renderCodeToImage(job).threw)
           => Readable(rendered)
    /\ thrown = NoValue
    /\ DatabaseIdle
    /\ AnalyzerIdle

NextValidateUI ==
    \/ RenderCodeToImage
    \/ ComparePixelLevel
    \/ PerformAIAnalysis
    \/ AnalyzeStructure
    \/ ValidateBrandConsistency
    \/ ComputeOverallScore
    \/ IdentifyIssues
    \/ BuildResult

SpecValidateUI == InitValidateUI /\ [][NextValidateUI]_vars

\* extractColorPalette as a function of the buffer
InitPalette ==
    /\ ServerIdle
    /\ ValidatorIdle
    /\ StagesIdle
    /\ DatabaseIdle
    /\ LET datas == {d \o tail : d \in Buffers(MaxSamples),
                                  tail \in {<<>>, <<0>>}} \ {<<>>}
       IN  image \in [exists : {TRUE}, ext : {Ext_png}, metadata : {"ok"},
                      width : {100}, height : {100},
                      raw : {Decoded(d) : d \in datas} \cup {DecodeFailure},
                      openai : {FALSE}, reply : {AIFailure}]
    /\ palette = <<>>
    /\ elements = <<>>
    /\ layout = DefaultLayout
    /\ calls = <<>>
    /\ rejection = NoValue
    /\ apc = "extract"

NextPalette == ExtractColorPalette

SpecPalette == InitPalette /\ [][NextPalette]_vars

\* analyzeImage from the call to the return or the rejection
InitAnalyze ==
    /\ ServerIdle
    /\ ValidatorIdle
    /\ StagesIdle
    /\ DatabaseIdle
    \* width or height 0: metadata without that dimension
    /\ image \in
          [exists : BOOLEAN,
           ext : {Ext_png, Ext_PNG, Ext_jpeg, <<".", "g", "i", "f">>, <<>>},
           metadata : {"ok", "throws"}, width : {0, 100, 400}, height : {0, 100},
           raw : {DecodeFailure, Decoded(<<0, 0, 0>>),
                  Decoded(<<255, 0, 0, 8, 8, 8, 0>>)},
           openai : BOOLEAN,
           reply : {AIFailure,
                    [AIFailure EXCEPT !.message = "No response from AI"],
                    [AIFailure EXCEPT !.message = "Invalid AI response format"]}
                   \cup [threw : {FALSE}, message : {""},
                         elements : {<<>>, <<"button">>}, layout : {"", "grid"}]]
    /\ palette = <<>>
    /\ elements = <<>>
    /\ layout = NoValue
    /\ calls = <<>>
    /\ rejection = NoValue
    /\ apc = "validate"

NextAnalyze ==
    \/ ValidateInput
    \/ ExtractColorPalette
    \/ AnalyzeWithAI
    \/ GenerateBasicElements

SpecAnalyze == InitAnalyze /\ [][NextAnalyze]_vars

\* one request to the handler
InitTool ==
    /\ advInput = NoValue
    /\ subpc = [t \in SubAnalyses |-> "idle"]
    /\ sections = NoSections
    /\ settled = <<>>
    /\ advResult = NoValue
    /\ advpc = "idle"
    /\ ValidatorIdle
    /\ StagesIdle
    /\ DatabaseIdle
    /\ AnalyzerIdle
    /\ requirementsFile = NoValue
    /\ modifications = NoValue
    /\ report = NoValue
    /\ conversions = 0
    /\ lastCommand = NoValue
    /\ request \in [name : ToolNames \cup {"ITU-unknown"}, hasArguments : BOOLEAN,
                     saveAnalysis : {"omitted", "true", "false"},
                     outputPath : {"omitted", "", "out/a.json"},
                     tool : {"resolves", "throws"}]
    /\ response = NoResponse
    /\ written = NoValue

NextTool == CallTool

SpecTool == InitTool /\ [][NextTool]_vars

\* the commands on one project: there is no requirements file, or init
\* (lines 974-1049) has written the default one
InitITU ==
    /\ advInput = NoValue
    /\ subpc = [t \in SubAnalyses |-> "idle"]
    /\ sections = NoSections
    /\ settled = <<>>
    /\ advResult = NoValue
    /\ advpc = "idle"
    /\ ValidatorIdle
    /\ StagesIdle
    /\ DatabaseIdle
    /\ AnalyzerIdle
    /\ request = [name |-> "", hasArguments |-> FALSE, saveAnalysis |-> "omitted",
                  outputPath |-> "omitted", tool |-> "resolves"]
    /\ response = NoResponse
    /\ written = NoValue
    /\ \E responsive, exists \in BOOLEAN :
          requirementsFile =
              [generateRequirementsMarkdown(
                   [framework |-> "react", responsive |-> responsive,
                    layout |-> [type |-> "flexbox", responsive |-> TRUE,
                                spacing |-> 16],
                    components |-> [buttonStyle |-> "rounded",
                                    borderRadius |-> 8],
                    history |-> [images |-> <<>>, outputs |-> <<>>]])
               EXCEPT !.exists = exists]
    /\ modifications = NoModifications
    /\ report = [found |-> FALSE, imagesProcessed |-> 0, filesGenerated |-> 0]
    /\ conversions = 0
    /\ lastCommand = "init"

NextITU == Start \/ Modify \/ Status

SpecITU == InitITU /\ [][NextITU]_vars

\* one call of analyzeImageAdvanced
InitAdvanced ==
    /\ ValidatorIdle
    /\ StagesIdle
    /\ DatabaseIdle
    /\ AnalyzerIdle
    /\ request = [name |-> "", hasArguments |-> FALSE, saveAnalysis |-> "omitted",
                  outputPath |-> "omitted", tool |-> "resolves"]
    /\ response = NoResponse
    /\ written = NoValue
    /\ requirementsFile = NoValue
    /\ modifications = NoValue
    /\ report = NoValue
    /\ conversions = 0
    /\ lastCommand = NoValue
    /\ advInput \in
          [readable : BOOLEAN,
           failing : SUBSET {"detectGridSystem", "analyzeTypography",
                             "identifyBrand", "analyzeComponentStructure",
                             "detectInteractionElements"},
           toss : BOOLEAN,
           decoding : {"ok", "Jimp.read throws", "stats throws"}]
    /\ subpc = [t \in SubAnalyses |-> "idle"]
    /\ sections = NoSections
    /\ settled = <<>>
    /\ advResult = NoValue
    /\ advpc = "called"

NextAdvanced == AnalyzeImageAdvanced \/ SubAnalysisStep \/ AwaitAll

SpecAdvanced == InitAdvanced /\ [][NextAdvanced]_vars


(***************************************************************************)
(* Properties of the Quality Aggregator (SpecValidate)                     *)
(***************************************************************************)
Scored == vpc \in {"issues", "result", "returned"}
IssuesKnown == vpc \in {"result", "returned"}

\* round(sum(weight_i * score_i) / sum(weight_i)) with the six fixed
\* weights, in exact arithmetic, Math.round rounding a half upwards.
RoundedWeightedMean(b) ==
    LET num == 25 * b.visualSimilarity + 20 * b.layoutAccuracy
               + 15 * b.colorMatching + 15 * b.typographyMatch
               + 15 * b.interactionElements + 10 * b.brandConsistency
        den == 25 + 20 + 15 + 15 + 15 + 10
    IN  (2 * num + den) \div (2 * den)

Scenario == [visualSimilarity    |-> 85,
             layoutAccuracy      |-> 90,
             colorMatching       |-> 85,
             typographyMatch     |-> 80,
             interactionElements |-> 85,
             brandConsistency    |-> 100]

\* C2 as stated: the scenario breakdown 85/90/85/80/85/100 has the overall
\* score 86.
C2_ScenarioScoreIs86 ==
    (Scored /\ breakdown = Scenario) => overallScore = 86

\* C2 as amended: the scenario breakdown 85/90/85/80/85/100 has the overall
\* score 87 (the weighted sum is 86.75).
C2_ScenarioScoreIs87 ==
    (Scored /\ breakdown = Scenario) => overallScore = 87

C2_Witness == Scored /\ breakdown = Scenario

\* C3: with all six sub-scores in [0,100], the overall score and the
\* confidence are in [0,100].
C3_ScoreAndConfidenceInRange ==
    /\ Scored => overallScore \in 0..100
    /\ vpc = "returned" => confidence \in 0..100

\* the extremes: all sub-scores 100, and the largest deviation (three
\* sub-scores 0, three 100)
C3_Witness ==
    /\ vpc = "returned"
    /\ \/ overallScore = 100 /\ confidence = 100
       \/ confidence = 50

\* The metric an issue rule reads, and the canned issue of the rule.
CannedIssue ==
    [visualSimilarity    |-> IssueLowSimilarity,
     layoutAccuracy      |-> IssueLayout,
     interactionElements |-> IssueInteraction,
     colorMatching       |-> IssueColor,
     typographyMatch     |-> IssueTypography]

Occurrences(list, x) == Cardinality({i \in 1..Len(list) : list[i] = x})

\* the number of issues the metric m has produced
IssuesOf(m) ==
    IF m \in DOMAIN CannedIssue THEN Occurrences(issues, CannedIssue[m]) ELSE 0

AllMetrics == {BreakdownKeys[i] : i \in 1..Len(BreakdownKeys)}

\* C4 as stated: a metric below its threshold (70 for visualSimilarity, 80
\* for every other metric) produces exactly one canned issue, a metric at or
\* above its threshold none.
ClaimedThreshold(m) == IF m = "visualSimilarity" THEN 70 ELSE 80

C4_ClaimedRuleTable ==
    IssuesKnown =>
        \A m \in AllMetrics :
            IssuesOf(m) = IF breakdown[m] < ClaimedThreshold(m) THEN 1 ELSE 0

\* C4 as amended: the thresholds are 80 for visualSimilarity and
\* interactionElements and 70 for layoutAccuracy, colorMatching and
\* typographyMatch; brandConsistency has no rule.  A metric with a rule
\* produces exactly one canned issue (with its severity and remedy) when it
\* is below its threshold and none otherwise, and there are no other issues.
RuleThreshold ==
    [visualSimilarity    |-> 80,
     layoutAccuracy      |-> 70,
     interactionElements |-> 80,
     colorMatching       |-> 70,
     typographyMatch     |-> 70]

C4_RuleTable ==
    IssuesKnown =>
        /\ \A m \in DOMAIN RuleThreshold :
              IssuesOf(m) = IF breakdown[m] < RuleThreshold[m] THEN 1 ELSE 0
        /\ \A i \in 1..Len(issues) :
              \E m \in DOMAIN RuleThreshold : issues[i] = CannedIssue[m]

\* metrics between 70 and 80 on both kinds of rule, and a low brand score
C4_Witness ==
    /\ IssuesKnown
    /\ breakdown.visualSimilarity = 79
    /\ breakdown.colorMatching = 79
    /\ breakdown.brandConsistency = 0
    /\ issues = <<IssueLowSimilarity>>

(***************************************************************************)
(* Properties of the Brand Identifier (SpecBrand, SpecDatabase)            *)
(***************************************************************************)
Returned == dpc = "done"

\* The forms a pattern can take: every ".?" is either absent or one
\* arbitrary character.
AnyChar == "."

RECURSIVE Expansions(_)
Expansions(P) ==
    IF P = <<>> THEN {<<>>}
    ELSE LET rest == Expansions(Tail(P))
         IN  IF Head(P) = OptionalAny
             THEN rest \cup {<<AnyChar>> \o e : e \in rest}
             ELSE {<<Head(P)>> \o e : e \in rest}

\* the form e stands in txt behind the first j characters
StandsAt(e, txt, j) ==
    \A k \in 1..Len(e) :
        \/ e[k] = AnyChar /\ txt[j + k] \notin LineTerminators
        \/ e[k] = txt[j + k]

\* the stretches <<from, to>> of txt that are an occurrence of P
Stretches(P, txt) ==
    UNION { { <<j, j + Len(e)>> :
                j \in {i \in 0..(Len(txt) - Len(e)) : StandsAt(e, txt, i)} } :
            e \in Expansions(P) }

Apart(a, b) == a[2] <= b[1] \/ b[2] <= a[1]

\* the number of occurrences of P in txt: the most stretches that can be
\* counted without counting a character twice
OccurrenceCount(P, txt) ==
    LET all == Stretches(P, txt)
        separate == {S \in SUBSET all : \A a, b \in S : a = b \/ Apart(a, b)}
    IN  IF Cardinality(all) <= 1 THEN Cardinality(all)
        ELSE CHOOSE n \in 1..Cardinality(all) :
                 /\ \E S \in separate : Cardinality(S) = n
                 /\ \A S \in separate : Cardinality(S) <= n

\* 10 x keyword occurrences + 15 x pattern occurrences + 25 x palette colors
\* equal, case-insensitively, to the primary, secondary or accent color.
\* Keywords, and patterns with the i flag, are looked for without regard to
\* case: in lower case in the text in lower case.
StatedScore(entry) ==
    LET pats == IF entry.name \in DOMAIN brandPatterns
                THEN brandPatterns[entry.name] ELSE <<>>
        profileColors ==
            IF entry.name \in DOMAIN brands
            THEN {brands[entry.name].colors.primary,
                  brands[entry.name].colors.secondary,
                  brands[entry.name].colors.accent}
            ELSE {}
        lowText == toLowerCase(callText)
    IN  10 * SeqSum([i \in 1..Len(entry.keywords) |->
                        OccurrenceCount(toLowerCase(entry.keywords[i]), lowText)])
        + 15 * SeqSum([i \in 1..Len(pats) |->
                        IF pats[i].ignoreCase
                        THEN OccurrenceCount(toLowerCase(pats[i].source), lowText)
                        ELSE OccurrenceCount(pats[i].source, callText)])
        + 25 * Cardinality({i \in 1..Len(callPalette) :
                  \E c \in profileColors :
                      toLowerCase(callPalette[i]) = toLowerCase(c)})

\* the profiles with a score above 0, in the order of the registry
RECURSIVE StatedCandidates(_)
StatedCandidates(entries) ==
    IF entries = <<>> THEN <<>>
    ELSE LET sc == StatedScore(Head(entries))
         IN  (IF sc > 0 THEN <<[name |-> Head(entries).name, score |-> sc]>>
                        ELSE <<>>)
             \o StatedCandidates(Tail(entries))

TopScore(candidates) ==
    CHOOSE m \in {candidates[i].score : i \in 1..Len(candidates)} :
        \A i \in 1..Len(candidates) : candidates[i].score <= m

\* C5: every profile gets 10 x keyword occurrences + 15 x pattern occurrences
\* + 25 x matching palette colors, profiles with score 0 are dropped, the
\* profile named has the maximum score, and confidence = min(score/100, 1).
C5_ScoringRule ==
    Returned =>
        /\ callScores = StatedCandidates(brandKeywords)
        /\ IF callScores = <<>>
           THEN result.confidence = 0
           ELSE /\ result.confidence = Min(TopScore(callScores), 100)
                /\ result.brand # NoBrand =>
                     \E i \in 1..Len(callScores) :
                         /\ callScores[i].name = result.brand
                         /\ callScores[i].score = TopScore(callScores)

\* a text with a repeated keyword, a pattern with ".?" and a matching color
C5_Witness ==
    /\ Returned
    /\ callText = JoinWord(W_toss, W_TossFace)
    /\ callPalette = <<OrangeLow>>
    /\ callScores = <<[name |-> "toss", score |-> 90],
                      [name |-> "kakao", score |-> 25]>>
    /\ result = [brand |-> "toss", confidence |-> 90]

\* C6: the brand is non-null only if confidence > 0.3; with no profile above
\* score 0 (in particular for empty text and empty palette) the result is
\* null with confidence 0; with a top confidence <= 0.3 the brand is null.
C6_ThresholdForBrand ==
    Returned =>
        /\ result.brand # NoBrand => result.confidence > 30
        /\ callScores = <<>> => result = [brand |-> NoBrand, confidence |-> 0]
        /\ (callText = <<>> /\ callPalette = <<>>) =>
               result = [brand |-> NoBrand, confidence |-> 0]
        /\ (callScores # <<>> /\ Min(TopScore(callScores), 100) <= 30) =>
               result.brand = NoBrand

\* a top score of exactly 30 (the color code of toss written twice), and
\* the empty input
C6_Witness ==
    /\ Returned
    /\ \/ /\ callText = JoinWord(W_hexBlue, W_hexBlue)
          /\ callPalette = <<>>
          /\ callScores = <<[name |-> "toss", score |-> 30]>>
          /\ result = [brand |-> NoBrand, confidence |-> 30]
       \/ /\ callText = <<>>
          /\ callPalette = <<>>
          /\ result = [brand |-> NoBrand, confidence |-> 0]

\* C7: of several profiles with the maximum score the one inserted first
\* into the registry is selected.
RegistryIndex(name) ==
    CHOOSE k \in 1..Len(brandKeywords) : brandKeywords[k].name = name

C7_FirstInsertedWinsTie ==
    (Returned /\ result.brand # NoBrand) =>
        /\ \A a, b \in 1..Len(callScores) :
              a < b => RegistryIndex(callScores[a].name)
                         < RegistryIndex(callScores[b].name)
        /\ \E i \in 1..Len(callScores) :
              /\ callScores[i].name = result.brand
              /\ callScores[i].score = TopScore(callScores)
              /\ \A j \in 1..(i - 1) : callScores[j].score < callScores[i].score
        /\ brandKeywords = InitialKeywords =>
              /\ RegistryIndex("toss") < RegistryIndex("kakao")
              /\ RegistryIndex("kakao") < RegistryIndex("naver")

\* toss and kakao both at 50
C7_Witness ==
    /\ Returned
    /\ callScores = <<[name |-> "toss", score |-> 50],
                      [name |-> "kakao", score |-> 50]>>
    /\ result.brand = "toss"

\* C8: two calls with the same (text, colors) return the same BrandMatch,
\* whatever detectBrand calls ran before or between them.
C8_Deterministic ==
    (/\ Returned
     /\ earlier.valid
     /\ earlier.text = callText
     /\ earlier.colorPalette = callPalette)
    => result = earlier.match

\* the same input a second time, after a call with another input
C8_Witness ==
    /\ Returned
    /\ earlier.valid
    /\ earlier.text = callText
    /\ earlier.colorPalette = callPalette
    /\ result.brand = "toss"
    /\ brands = InitialBrands
    /\ brandKeywords = InitialKeywords

C10_TossScenario ==
    (/\ Returned
     /\ callText = ScenarioText
     /\ callPalette = <<Blue, PaleGray>>)
    => (result.brand = "toss" /\ result.confidence >= 50)

C10_Witness ==
    /\ Returned
    /\ callText = ScenarioText
    /\ callPalette = <<Blue, PaleGray>>
    /\ result = [brand |-> "toss", confidence |-> 85]

(***************************************************************************)
(* Properties of the Pixel Comparator (SpecPixel)                          *)
(***************************************************************************)
\* comparePixelLevel has returned
PixelCompared == vpc = "ai"

Regions == Len(pixelComparison.differences)
SeverityOf(i) == pixelComparison.differences[i].severity

\* C11: for every pair of images comparePixelLevel returns a similarity in
\* [0,1] and at most 100 difference regions, each with a severity in [0,1].
C11_SimilarityAndRegionsBounded ==
    PixelCompared =>
        /\ pixelComparison.similarity \in 0..100
        /\ Len(pixelComparison.differences) <= 100
        /\ \A i \in 1..Regions : SeverityOf(i) \in 0..SeverityOne

\* 102 pixels, more than 100 of them beyond the threshold, with severities
\* of 1 and below 1
C11_Witness ==
    /\ PixelCompared
    /\ original.width * original.height > 100
    /\ original.width = rendered.width /\ original.height = rendered.height
    /\ Len(pixelComparison.differences) = 100
    /\ pixelComparison.similarity \in 1..99
    /\ \E i \in 1..100 : SeverityOf(i) = SeverityOne
    /\ \E j \in 1..100 : SeverityOf(j) < SeverityOne

\* C12: comparing an image with an exact copy of itself yields similarity
\* 1.0 and no difference region.
C12_CopyIsFullySimilar ==
    (PixelCompared /\ Readable(original) /\ rendered = original) =>
        pixelComparison = [similarity |-> 100, differences |-> <<>>]

\* two solid-white images of 34 x 3 pixels
C12_Witness ==
    /\ PixelCompared
    /\ rendered = original
    /\ original.width = 34 /\ original.height = 3
    /\ \A i \in 1..102 : original.pixels[i] = White
    /\ pixelComparison.similarity = 100
    /\ pixelComparison.differences = <<>>

\* the severities of the pixel pairs of two rasters of equal size that
\* differ by more than the threshold
SevereAt(i) ==
    LET a == original.pixels[i]
        b == rendered.pixels[i]
        d2 == Square(b[1] - a[1]) + Square(b[2] - a[2]) + Square(b[3] - a[3])
    IN  IF d2 >= 255 * 255 THEN SeverityOne ELSE FloorSqrt(10000 * d2, 0, 25500)

Exceeding ==
    {i \in 1..Len(original.pixels) :
        LET a == original.pixels[i]
            b == rendered.pixels[i]
        IN  Square(b[1] - a[1]) + Square(b[2] - a[2]) + Square(b[3] - a[3])
                > threshold * threshold}

RegionIndex(d) == d.region.y * original.width + d.region.x + 1

\* C13: the difference regions are ordered most severe first, and when more
\* than 100 pixel pairs exceed the threshold the 100 regions kept are the
\* most severe ones.
C13_MostSevereFirst ==
    PixelCompared =>
        /\ \A i, j \in 1..Regions : i < j => SeverityOf(i) >= SeverityOf(j)
        /\ (/\ Readable(original) /\ Readable(rendered)
            /\ original.width = rendered.width
            /\ original.height = rendered.height
            /\ Cardinality(Exceeding) > 100) =>
               LET kept == {RegionIndex(pixelComparison.differences[k]) :
                               k \in 1..Len(pixelComparison.differences)}
               IN  \A i \in Exceeding \ kept : \A k \in kept :
                       SevereAt(i) <= SevereAt(k)

(***************************************************************************)
(* Properties of validateUI as a whole (SpecValidateUI)                    *)
(***************************************************************************)
AfterComparison ==
    {"ai", "structure", "brand", "aggregate", "issues", "result", "returned"}

ImageUnreadable == ~Readable(original) \/ ~Readable(rendered)

\* C14: if reading or decoding the original or the rendered image fails,
\* comparePixelLevel returns the neutral fallback (similarity 0.5, no
\* differences) and does not raise: the validation goes on, a rejection of
\* validateUI comes from the renderer or from reading the code file, and a
\* returned result has the visual similarity of the fallback.
C14_UnreadableImageFallsBack ==
    ImageUnreadable =>
        /\ vpc \in AfterComparison => pixelComparison = PixelFallback
        /\ thrown # "pixel comparison"
        /\ vpc = "rejected" =>
               thrown \in {"renderer", "ENOENT", "Unsupported code format"}
        /\ vpc = "returned" =>
               /\ breakdown.visualSimilarity = 50
               /\ overallScore \in 0..100
               /\ confidence \in 0..100

\* a validation that returned although the rendered image was missing
C14_Witness ==
    /\ vpc = "returned"
    /\ Readable(original)
    /\ rendered = MissingFile
    /\ pixelComparison = PixelFallback
    /\ breakdown.visualSimilarity = 50
    /\ thrown = NoValue

(***************************************************************************)
(* Properties of the Color Extractor (SpecPalette, SpecAnalyze)            *)
(***************************************************************************)
\* extractColorPalette has returned
Extracted == apc = "ai"

\* the number of samples the loop takes from the buffer, and the text of
\* the quantized color of the k-th
TotalSamples == (Len(image.raw.data) + 2) \div 3

SampleText(k) ==
    RgbText(RoundTo16(ByteAt(image.raw.data, 3 * (k - 1))),
            RoundTo16(ByteAt(image.raw.data, 3 * (k - 1) + 1)),
            RoundTo16(ByteAt(image.raw.data, 3 * (k - 1) + 2)))

\* in the sample texts: how many are the color, and the first that is
Frequency(texts, color) == Cardinality({k \in DOMAIN texts : texts[k] = color})

FirstSeen(texts, color) ==
    CHOOSE k \in DOMAIN texts :
        /\ texts[k] = color
        /\ \A l \in 1..(k - 1) : texts[l] # color

\* C15: the palette is ordered by descending frequency of the quantized
\* color, and colors of equal frequency appear in the order in which they
\* were first observed in the samples.
C15_FrequencyThenFirstSeen ==
    (Extracted /\ ~image.raw.threw) =>
        LET texts == [k \in 1..TotalSamples |-> SampleText(k)]
            count == [i \in 1..Len(palette) |-> Frequency(texts, palette[i].color)]
        IN  /\ \A i \in 1..Len(palette) : count[i] >= 1
            /\ \A i, j \in 1..Len(palette) :
                  i < j =>
                     \/ count[i] > count[j]
                     \/ /\ count[i] = count[j]
                        /\ FirstSeen(texts, palette[i].color)
                              < FirstSeen(texts, palette[j].color)

\* white first seen, then black twice (once as 7,7,7), then rgb(16, 16, 16):
\* black leads, white stays before rgb(16, 16, 16)
C15_Witness ==
    /\ Extracted
    /\ image.raw.data = <<255, 255, 255, 0, 0, 0, 7, 7, 7, 8, 8, 8>>
    /\ palette = << [color |-> RgbText(0, 0, 0)],
                    [color |-> RgbText(256, 256, 256)],
                    [color |-> RgbText(16, 16, 16)] >>

PastExtraction == Len(calls) >= 1

\* C17: if decoding or sampling throws inside extractColorPalette, it
\* returns the fixed fallback palette (white, black, two grays, blue) and
\* the error does not reach analyzeImage.
C17_FallbackPalette ==
    (PastExtraction /\ image.raw.threw) =>
        /\ palette = FallbackPalette
        /\ rejection = NoValue
        /\ apc # "rejected"

\* an analysis that returned with the fallback palette
C17_Witness ==
    /\ apc = "returned"
    /\ image.raw.threw
    /\ palette = FallbackPalette
    /\ Len(elements) >= 1

(***************************************************************************)
(* Collaborator failures and the result shape (SpecValidateUI)             *)
(***************************************************************************)
\* the renderer was called for the generated code and threw
RendererFailed ==
    /\ job.ext \in {".html", ".tsx"}
    /\ job.renderer = "throws"
    /\ vpc # "render"

\* C18 as claimed: a failure of the renderer during validation is recovered
\* locally; validateUI goes on to a complete result and does not reject
\* with the failure.
C18_RendererFailureRecovered ==
    RendererFailed => (vpc # "rejected" /\ thrown # "renderer")

\* the request to the vision model fails
VisionUnavailable == job.vision = "throws"

\* C19: every result returned by validateUI has the six breakdown keys,
\* each with a number from 0 to 100; when the vision-model analysis is
\* unavailable colorMatching and typographyMatch are the neutral 70.
C19_BreakdownComplete ==
    vpc = "returned" =>
        /\ DOMAIN breakdown = {BreakdownKeys[n] : n \in 1..Len(BreakdownKeys)}
        /\ \A k \in DOMAIN breakdown : breakdown[k] \in 0..100
        /\ VisionUnavailable =>
              /\ breakdown.colorMatching = 70
              /\ breakdown.typographyMatch = 70

\* a result returned although the vision model failed, both images readable
C19_Witness ==
    /\ vpc = "returned"
    /\ VisionUnavailable
    /\ Readable(original) /\ Readable(rendered)
    /\ breakdown.colorMatching = 70
    /\ breakdown.typographyMatch = 70
    /\ overallScore \in 0..100

(***************************************************************************)
(* Input errors of analyzeImage (SpecAnalyze)                              *)
(***************************************************************************)
UnsupportedFormat == toLowerCase(image.ext) \notin SupportedFormats

UnreadableDimensions ==
    image.metadata = "throws" \/ image.width = 0 \/ image.height = 0

InputError == ~image.exists \/ UnsupportedFormat \/ UnreadableDimensions

\* C20: for a missing file, an extension outside .png/.jpg/.jpeg/.bmp or
\* an image whose width or height cannot be read, analyzeImage rejects
\* with an error that names the cause, and neither the color extraction
\* nor the vision model has been called.
C20_InputErrorsFailFast ==
    (apc # "validate" /\ InputError) =>
        /\ apc = "rejected"
        /\ rejection # NoValue
        /\ calls = <<>>
        /\ palette = <<>>
        /\ elements = <<>>
        /\ ~image.exists => rejection = "Image file not found"
        /\ (image.exists /\ UnsupportedFormat)
              => rejection = "Unsupported image format"
        /\ (image.exists /\ ~UnsupportedFormat /\ image.metadata = "ok")
              => rejection = "Could not read image dimensions"

\* a .PNG file that exists and whose height is read as 0
C20_Witness ==
    /\ apc = "rejected"
    /\ image.exists
    /\ image.ext = Ext_PNG
    /\ image.metadata = "ok"
    /\ image.width = 100 /\ image.height = 0
    /\ image.openai
    /\ rejection = "Could not read image dimensions"
    /\ calls = <<>>

(***************************************************************************)
(* The accumulation of comparePixelLevel (SpecPixel)                       *)
(***************************************************************************)
\* the sum of the distances of the pixel pairs first..last of the two files
RECURSIVE DistanceSum(_, _)
DistanceSum(first, last) ==
    IF first > last THEN 0
    ELSE IF first = last
    THEN LET a == original.pixels[first]
             b == rendered.pixels[first]
         IN  FloorSqrt(10000 * (Square(b[1] - a[1]) + Square(b[2] - a[2])
                                + Square(b[3] - a[3])), 0, 46340)
    ELSE LET mid == (first + last) \div 2
         IN  DistanceSum(first, mid) + DistanceSum(mid + 1, last)

SameSize ==
    /\ Readable(original) /\ Readable(rendered)
    /\ original.width = rendered.width
    /\ original.height = rendered.height

\* C23: the total distance is accumulated over every pixel pair of the
\* grid, the pairs after the 100th region included: the similarity is the
\* one of the sum of all distances over all width * height pixels.
C23_AccumulatesOverAllPixels ==
    (PixelCompared /\ SameSize) =>
        LET pixelCount == original.width * original.height
            total == DistanceSum(1, pixelCount)
        IN  pixelComparison.similarity =
                Max(0, (100 * (pixelCount * MaxDistance - total))
                           \div (pixelCount * MaxDistance))

\* 102 pixels: the first pair equal, the other 101 black against white, so
\* that one pair beyond the threshold comes after the 100th region
C23_Witness ==
    /\ PixelCompared
    /\ SameSize
    /\ original.width * original.height = 102
    /\ original.pixels[1] = White
    /\ \A i \in 2..102 : original.pixels[i] = Black
    /\ \A i \in 1..102 : rendered.pixels[i] = White
    /\ Regions = 100
    /\ Cardinality(Exceeding) = 101
    /\ pixelComparison.similarity = 0

(***************************************************************************)
(* The order of the stages of validateUI (SpecValidateUI)                  *)
(***************************************************************************)
BeforeComparison == {"render", "compare"}
BeforeAggregation == {"render", "compare", "ai", "structure", "brand",
                      "aggregate", "rejected"}
AfterAggregation == {"issues", "result", "returned"}

\* C24: the pixel comparison starts only after the renderer has returned
\* the rendered image path, and score aggregation and issue generation
\* start only after pixel comparison, vision analysis, structural analysis
\* and the brand-consistency check have completed.
C24_StagesInOrder ==
    /\ vpc \notin {"render", "rejected"} => ~renderCodeToImage(job).threw
    /\ vpc \in BeforeComparison => pixelComparison = NoValue
    /\ vpc \in BeforeAggregation =>
           /\ breakdown = NoValue
           /\ overallScore = NoValue
           /\ issues = NoValue
    /\ vpc \in {"aggregate"} \cup AfterAggregation =>
           /\ pixelComparison.similarity \in 0..100
           /\ aiAnalysis.colorScore \in 0..100
           /\ structuralAnalysis.layoutScore \in 0..100
           /\ brandConsistency \in 0..100

\* the aggregation of an .html run has been done on the four stage results
C24_Witness ==
    /\ vpc = "issues"
    /\ job.ext = ".html"
    /\ ~renderCodeToImage(job).threw
    /\ breakdown.visualSimilarity = pixelComparison.similarity
    /\ breakdown.colorMatching = aiAnalysis.colorScore
    /\ breakdown.layoutAccuracy = structuralAnalysis.layoutScore
    /\ breakdown.brandConsistency = brandConsistency
    /\ brandConsistency < 100

\* C29 as claimed: whenever renderCodeToImage has returned a path, an image
\* has been written at that path, so that the pixel comparison reads a
\* rendering and not a missing file.
C29_RenderedImageWritten ==
    vpc \notin {"render", "rejected"} => Readable(rendered)

(***************************************************************************)
(* The quantization of the Color Extractor (SpecPalette)                   *)
(***************************************************************************)
\* the multiples of 16 that are channel values
ValidChannels == {16 * n : n \in 0..15}

ValidColorTexts == {RgbText(r, g, b) : r, g, b \in ValidChannels}

\* C28 as claimed: every channel of every color the quantization produces
\* is a multiple of 16 in the channel range 0..255, for the input channel
\* values 0..255.
C28_ChannelsInRange ==
    (Extracted /\ ~image.raw.threw /\ Len(image.raw.data) % 3 = 0) =>
        \A i \in 1..Len(palette) : palette[i].color \in ValidColorTexts

(***************************************************************************)
(* The vision model in analyzeImage (SpecAnalyze)                          *)
(***************************************************************************)
\* analyzeWithAI was called and threw: the request failed, the reply had no
\* content, or its content was not JSON
VisionFailed ==
    /\ image.openai
    /\ image.reply.threw
    /\ Len(calls) >= 2

\* C26: if the vision-model call fails, returns no content or returns text
\* that is not JSON, analyzeImage still resolves, with the default layout
\* (typography, design system), the extracted palette and a non-empty
\* element list.
C26_VisionFailureGivesDefaults ==
    VisionFailed =>
        /\ apc \in {"elements", "returned"}
        /\ rejection = NoValue
        /\ layout = DefaultLayout
        /\ palette = extractColorPalette(image.raw).value
        /\ apc = "returned" =>
               /\ Len(elements) >= 1
               /\ elements = generateBasicElements(image)

\* a reply that was not JSON, on a wide image
C26_Witness ==
    /\ apc = "returned"
    /\ VisionFailed
    /\ image.reply.message = "Invalid AI response format"
    /\ ~image.raw.threw
    /\ layout = "flow"
    /\ elements = <<"header", "container">>
    /\ Len(palette) = 3


(***************************************************************************)
(* The request handler                                                     *)
(***************************************************************************)
Handled == response # NoResponse

\* C21: a handled ITU-analyze request that omits saveAnalysis is answered
\* as the same request with saveAnalysis = true is, and the same file is
\* written: outputPath, or ./analysis-result.json.
C21_SavesByDefault ==
    (Handled /\ request.name = "ITU-analyze" /\ request.saveAnalysis = "omitted")
        => LET saving == CallToolHandler([request EXCEPT !.saveAnalysis = "true"])
           IN  response = saving.response /\ written = saving.written

Failing(req) ==
    ~req.hasArguments \/ req.name \notin ToolNames \/ req.tool = "throws"

\* C30: every handled request is answered with a result, never with an
\* exception out of the handler; a failing request (no arguments, an
\* unknown tool, a failing tool) is answered with isError = true and a text
\* that starts with "Error: ".
C30_FailuresAreResults ==
    Handled =>
        /\ ~response.threw
        /\ Failing(request) => response.isError /\ response.text[1] = "Error: "


(***************************************************************************)
(* The ITU commands                                                        *)
(***************************************************************************)
\* C22: a status report taken after n start runs have resolved on the
\* requirements file, no modification having been made, shows
\* Images Processed = n and Files Generated = n.
C22_HistoryAccumulates ==
    (lastCommand = "status" /\ report.found /\ modifications = NoModifications)
        => report.imagesProcessed = conversions
           /\ report.filesGenerated = conversions

\* C27: a modify changes only what its modifications name: every field of
\* the requirements that is not named reads after the modify as it read
\* before, layout.type also when the layout object has no type and
\* components.buttonStyle also when the components object has none.
C27_ModifyKeepsUnnamed ==
    [][(lastCommand' = "modify" /\ requirementsFile.exists) =>
        LET before == parseRequirementsMarkdown(requirementsFile)
            after  == parseRequirementsMarkdown(requirementsFile')
            m      == modifications'
        IN  /\ m.framework = "" => after.framework = before.framework
            /\ after.responsive = before.responsive
            /\ after.layout.responsive = before.layout.responsive
            /\ "type" \notin m.layout.names
                    => after.layout.type = before.layout.type
            /\ "spacing" \notin m.layout.names
                    => after.layout.spacing = before.layout.spacing
            /\ "buttonStyle" \notin m.components.names
                    => after.components.buttonStyle = before.components.buttonStyle
            /\ "borderRadius" \notin m.components.names
                    => after.components.borderRadius
                           = before.components.borderRadius]_vars


(***************************************************************************)
(* analyzeImageAdvanced                                                    *)
(***************************************************************************)
OnlyVisionFails == advInput.readable /\ advInput.decoding = "ok"

\* C25: when nothing but requests to the vision model fails, then in every
\* order in which the five sub-analyses resolve analyzeImageAdvanced is not
\* rejected, and what it returns has all six sections, each sub-analysis
\* whose request failed giving the value of its catch.
C25_FallbacksFillSections ==
    /\ (advpc = "rejected" /\ advInput.readable) => advInput.decoding # "ok"
    /\ (advpc = "returned" /\ OnlyVisionFails) =>
          LET failed(call) == call \in advInput.failing
              pixel == advResult.pixelMeasurements
              brand == advResult.brandIdentification
          IN  /\ pixel.gridSystem.type \in {"flexbox", "css-grid"}
              /\ failed("detectGridSystem")
                    => pixel.gridSystem = [type |-> "flexbox", rows |-> 1]
              /\ pixel.typography.lineHeights \in {3, 5}
              /\ failed("analyzeTypography")
                    => pixel.typography = [fonts |-> 0, lineHeights |-> 3]
              /\ brand.brandAssets \in {"toss", "generic"}
              /\ failed("identifyBrand")
                    => brand = [detectedBrand |-> "null", confidence |-> 0,
                                brandAssets |-> "generic"]
              /\ advResult.componentStructure = [type |-> "div", children |-> 0]
              /\ advResult.preciseColorPalette.wcagCompliant
              /\ advResult.interactionElements = <<>>
              /\ advResult.analysisQuality.confidence = brand.confidence
              /\ advResult.analysisQuality.overallScore \in {70, 89}
              /\ Len(settled) = 5

\* every request to the vision model has failed, the brand identification
\* has resolved first and the pixel measurements last
C25_Witness ==
    /\ advpc = "returned"
    /\ OnlyVisionFails
    /\ Cardinality(advInput.failing) = 5
    /\ settled[1] = "brandIdentification"
    /\ settled[5] = "pixelMeasurements"

====
